---- MODULE Spec2Model ----
(***************************************************************************)
(* A model of mundy's preference stream and of the callback subscription   *)
(* built on it.  The build modelled has the features color-scheme,         *)
(* contrast and reduced-motion enabled (so Interest::All has three flags). *)
(*                                                                         *)
(* One behaviour is one process: the operating system changes preferences  *)
(* and fires notifications, the application calls Preferences::stream or   *)
(* Preferences::subscribe once, and the consumer (the application's own    *)
(* task, or the subscription's background task) polls the stream.          *)
(***************************************************************************)
EXTENDS Naturals, Sequences, FiniteSets, TLC

\* ---------------------------------------------------------------- bounds
\* Number of native notifications the operating system fires in one run.
MaxNotifications == 2
\* The same number for the runs checked under the fairness conditions.
MaxFairNotifications == 1
\* Number of add calls on one registry in one run.
MaxAdds == 7
\* Width, in bits, with which the usize handle counter is modelled.
HandleBits == 3
\* Number of register_windows_hook calls in one run.
MaxRegistrations == 3
\* Number of threads calling android::subscribe and dropping Subscriptions.
MaxThreads == 2

\* ---------------------------------------------------------------- values
Platforms == {"linux", "web", "macos", "android", "windows"}

\* The flags of Interest that exist in the modelled build.
Kinds == {"ColorScheme", "Contrast", "ReducedMotion"}

ColorSchemeValues == {"NoPreference", "Dark", "Light"}
ContrastValues == {"NoPreference", "More"}
ReducedMotionValues == {"NoPreference", "Reduce"}

\* AvailablePreferences / Preferences: one field per enabled feature.
Snapshots ==
    [color_scheme : ColorSchemeValues,
     contrast : ContrastValues,
     reduced_motion : ReducedMotionValues]

\* #[derive(Default)]: every field is NoPreference.
DefaultPreferences ==
    [color_scheme |-> "NoPreference",
     contrast |-> "NoPreference",
     reduced_motion |-> "NoPreference"]

\* The OS settings a run may start from: nothing expressed, or every
\* preference set (later changes are made by NativeChange).
InitialNatives ==
    {DefaultPreferences,
     [color_scheme |-> "Dark", contrast |-> "More",
      reduced_motion |-> "Reduce"]}

ValuesOf(k) ==
    CASE k = "ColorScheme" -> ColorSchemeValues
      [] k = "Contrast" -> ContrastValues
      [] k = "ReducedMotion" -> ReducedMotionValues

Get(p, k) ==
    CASE k = "ColorScheme" -> p.color_scheme
      [] k = "Contrast" -> p.contrast
      [] k = "ReducedMotion" -> p.reduced_motion

Set(p, k, v) ==
    CASE k = "ColorScheme" -> [p EXCEPT !.color_scheme = v]
      [] k = "Contrast" -> [p EXCEPT !.contrast = v]
      [] k = "ReducedMotion" -> [p EXCEPT !.reduced_motion = v]

\* Interest::is: self is a superset of other.
Is(self, other) == other \subseteq self

\* Interest::is_empty
IsEmpty(self) == self = {}

\* ----------------------------------------------- Interest as a bit mask
\* The bitwise operators of Rust on unsigned integers.
RECURSIVE BitAnd(_, _)
BitAnd(x, y) ==
    IF x = 0 \/ y = 0 THEN 0
    ELSE (x % 2) * (y % 2) + 2 * BitAnd(x \div 2, y \div 2)

RECURSIVE BitOr(_, _)
BitOr(x, y) ==
    IF x = 0 THEN y
    ELSE IF y = 0 THEN x
    ELSE (IF x % 2 = 1 \/ y % 2 = 1 THEN 1 ELSE 0)
         + 2 * BitOr(x \div 2, y \div 2)

\* The flag constants of Interest, 1 << n, with every feature enabled.
InterestFlags == {1, 2, 4, 8, 16, 32}

\* Interest::All: the flags or-ed together, starting from 0.
RECURSIVE OrAll(_)
OrAll(flags) ==
    IF flags = {} THEN 0
    ELSE LET f == CHOOSE f \in flags : TRUE
         IN BitOr(OrAll(flags \ {f}), f)

All == OrAll(InterestFlags)

\* The values of Interest the public API can build: Default, the
\* constants, and what BitOr makes of them.
Interests == 0..All

\* is that tests for a common flag.
isIntersecting(self, other) == BitAnd(other, self) # 0

\* Interest::is: (other.0 & self.0) == other.0
is(self, other) == BitAnd(other, self) = other

\* Interest::is_empty: self.0 == 0
is_empty(self) == self = 0

\* impl BitOr for Interest: Self(self.0 | rhs.0)
bitor(self, rhs) == BitOr(self, rhs)

\* interestOp before any operands were chosen.
NoInterestOp ==
    [self |-> 0, other |-> 0, is |-> << >>, is_empty |-> << >>,
     bitor |-> << >>]

\* Interest::MacOSAccessibility: the union of the accessibility flags.
MacOSAccessibility == {"Contrast", "ReducedMotion"}

\* Interest::GnomeOnly: the flags read from the org.gnome namespaces.
GnomeOnly == {"ReducedMotion"}

\* --------------------------------------------- native registration handles
\* The flags whose registrations are followed: those of the modelled build
\* and AccentColor, which brings a registration of its own on macOS and on
\* the web.
HandleKinds == Kinds \cup {"AccentColor"}

\* teardown before a stream exists.  owned: the handles in the order they
\* were registered; plan: the handles the running drop has still to
\* handle; thread: the thread the drop runs on; zone: DROP_ZONE is
\* initialised; queue: what was handed to the main thread and has not run;
\* released: the native unregistrations executed, with their thread.
NoTeardown ==
    [pc |-> "none", interest |-> {}, owned |-> << >>, plan |-> << >>,
     thread |-> "main", zone |-> FALSE, queue |-> << >>,
     released |-> << >>]

Reverse(s) == [n \in 1..Len(s) |-> s[Len(s) + 1 - n]]

\* Observer::register: the observers added, in the order of the calls.
ObserverRegister(i) ==
    (IF Is(i, {"ColorScheme"}) THEN <<"effectiveAppearance">> ELSE << >>)
    \o (IF Is(i, MacOSAccessibility)
        THEN <<"AccessibilityDisplayOptionsDidChange">> ELSE << >>)
    \o (IF Is(i, {"AccentColor"}) THEN <<"SystemColorsDidChange">>
        ELSE << >>)

\* A drop that removes the accessibility observer for any of its flags.
ObserverRegistrationDropAnyFlag(i) ==
    (IF Is(i, {"ColorScheme"}) THEN <<"effectiveAppearance">> ELSE << >>)
    \o (IF i \cap MacOSAccessibility # {}
        THEN <<"AccessibilityDisplayOptionsDidChange">> ELSE << >>)
    \o (IF Is(i, {"AccentColor"}) THEN <<"SystemColorsDidChange">>
        ELSE << >>)

\* ObserverRegistration::drop: the removals it issues for the interest it
\* stored, in the order of its statements.
ObserverRegistrationDrop(i) ==
    (IF Is(i, {"ColorScheme"}) THEN <<"effectiveAppearance">> ELSE << >>)
    \o (IF Is(i, MacOSAccessibility)
        THEN <<"AccessibilityDisplayOptionsDidChange">> ELSE << >>)
    \o (IF Is(i, {"AccentColor"}) THEN <<"SystemColorsDidChange">>
        ELSE << >>)

\* The media queries a flag listens to on the web, in the order their
\* listeners are added (a multi-value query ends with its NO_PREFERENCE
\* query); the accent colour has one observer.
MediaQueries(k) ==
    CASE k = "ReducedMotion" -> <<"(prefers-reduced-motion: reduce)">>
      [] k = "ColorScheme" ->
           <<"(prefers-color-scheme: dark)", "(prefers-color-scheme: light)",
             "all and (not dark) and (not light)">>
      [] k = "Contrast" ->
           <<"(prefers-contrast: more)", "(prefers-contrast: less)",
             "(prefers-contrast: custom)",
             "all and (not more) and (not less) and (not custom)">>
      [] k = "AccentColor" -> <<"AccentColorObserver">>

\* web::stream: the guards pushed to `guards`, followed by the accent
\* colour observer.  queried: the flags whose queries and listeners worked.
WebGuards(i, queried) ==
    LET guards(k) == IF Is(i, {k}) /\ k \in queried THEN MediaQueries(k)
                     ELSE << >>
    IN guards("ReducedMotion") \o guards("ColorScheme")
       \o guards("Contrast") \o guards("AccentColor")

\* The drop glue of web::PreferencesStream: the fields in the order of
\* their declaration, the elements of the Vec from the first to the last.
PreferencesStreamDrop(owned) == owned

\* com_thread: CoInitializeEx, then the hook; nothing without COM.
ComThreadLocals(com, hook) ==
    IF ~com THEN << >>
    ELSE <<"CoInitializeEx">>
         \o (IF hook THEN <<"SetWindowsHookExW">> ELSE << >>)

\* Locals dropped in the order of their declaration.
ComThreadReturnForward(owned) == owned

\* The return of com_thread: its locals are dropped in the reverse of the
\* order of their declaration.
ComThreadReturn(owned) == Reverse(owned)

\* A DropOnMainThread that destroys its value wherever it is dropped.
DropInPlace(t, h) ==
    [t EXCEPT !.released = Append(@, [handle |-> h, thread |-> t.thread])]

\* DropOnMainThread::drop: the value is taken; with a window (the main
\* thread) it is dropped in place, else it is sent to the drop zone.
DropOnMainThreadDrop(t, h) ==
    IF t.thread # "main"
    THEN IF t.zone THEN [t EXCEPT !.queue = Append(@, h)]
         ELSE [t EXCEPT !.pc = "panicked"]
    ELSE [t EXCEPT !.released = Append(@, [handle |-> h, thread |-> "main"])]

\* One statement of ObserverRegistration::drop: the KVO observer is removed
\* by a closure given to run_on_main_async, the others at once.
ObserverRemove(t, h) ==
    IF h = "effectiveAppearance"
    THEN [t EXCEPT !.queue = Append(@, h)]
    ELSE [t EXCEPT !.released =
                       Append(@, [handle |-> h, thread |-> t.thread])]

\* HookGuard and ComThreadGuard are dropped on the COM thread itself.
DropLocal(t, h) ==
    [t EXCEPT !.released = Append(@, [handle |-> h, thread |-> t.thread])]

\* Preferences::from(AvailablePreferences): copies every enabled field.
ToPreferences(p) ==
    [color_scheme |-> p.color_scheme,
     contrast |-> p.contrast,
     reduced_motion |-> p.reduced_motion]

\* ------------------------------------------------- reading native values
\* What the platform reports for the OS value of one preference.
\* Android only knows night mode on/off (get_color_scheme).
NativeValue(pf, nat, k) ==
    IF pf = "android" /\ k = "ColorScheme"
    THEN (IF nat.color_scheme = "Dark" THEN "Dark" ELSE "Light")
    ELSE Get(nat, k)

\* The per-backend "read the preferences selected by interest" routine
\* (initial_preferences, get_preferences, read_preferences): a field is
\* read when its flag is in the interest and its reader is in ok, and is
\* the default otherwise.
ReadPreferences(pf, nat, i, ok) ==
    [color_scheme |->
        IF "ColorScheme" \in i /\ "ColorScheme" \in ok
        THEN NativeValue(pf, nat, "ColorScheme") ELSE "NoPreference",
     contrast |->
        IF "Contrast" \in i /\ "Contrast" \in ok
        THEN NativeValue(pf, nat, "Contrast") ELSE "NoPreference",
     reduced_motion |->
        IF "ReducedMotion" \in i /\ "ReducedMotion" \in ok
        THEN NativeValue(pf, nat, "ReducedMotion") ELSE "NoPreference"]

\* ----------------------------------------------------------------- deltas
\* An item of the channel between the native callbacks and the stream.
\* tag names what the item carries; val holds the carried values in the
\* fields the tag names (the other fields of val are not used).
\*   web:     ColorScheme / Contrast / ReducedMotion  (enum Preference)
\*   macos:   ColorScheme / Accessibility             (enum Preference)
\*   linux:   ColorScheme / Contrast / ReducedMotion  (SettingChanged)
\*   android, windows: Snapshot (a complete AvailablePreferences)
Delta(tag, val) == [tag |-> tag, val |-> val]

\* Preference::apply of web and macos.
ApplyPreference(d, p) ==
    CASE d.tag = "ColorScheme" -> [p EXCEPT !.color_scheme = d.val.color_scheme]
      [] d.tag = "Contrast" -> [p EXCEPT !.contrast = d.val.contrast]
      [] d.tag = "ReducedMotion" ->
            [p EXCEPT !.reduced_motion = d.val.reduced_motion]
      [] d.tag = "Accessibility" ->
            [p EXCEPT !.contrast = d.val.contrast,
                      !.reduced_motion = d.val.reduced_motion]
      [] OTHER -> p

\* ApplyMessage that writes the field whatever the interest.
ApplyMessageAnyInterest(i, d, p) == ApplyPreference(d, p)

\* ApplyMessage that falls back to the default snapshot when the body of
\* the message cannot be deserialised.
ApplyMessageResetOnError(i, d, p) ==
    CASE d.tag = "ColorScheme" /\ Is(i, {"ColorScheme"}) ->
            [p EXCEPT !.color_scheme = d.val.color_scheme]
      [] d.tag = "Contrast" /\ Is(i, {"Contrast"}) ->
            [p EXCEPT !.contrast = d.val.contrast]
      [] d.tag = "ReducedMotion" /\ Is(i, {"ReducedMotion"}) ->
            [p EXCEPT !.reduced_motion = d.val.reduced_motion]
      [] d.tag = "Malformed" -> DefaultPreferences
      [] OTHER -> p

\* apply_message of freedesktop, with the closure of changes around it: a
\* field is written only when its flag is in the interest; a message whose
\* body does not deserialise (tag Malformed) makes apply_message return
\* an error that the closure logs; that message and every message of
\* another (namespace, key) leave the preferences unchanged.
ApplyMessage(i, d, p) ==
    CASE d.tag = "ColorScheme" /\ Is(i, {"ColorScheme"}) ->
            [p EXCEPT !.color_scheme = d.val.color_scheme]
      [] d.tag = "Contrast" /\ Is(i, {"Contrast"}) ->
            [p EXCEPT !.contrast = d.val.contrast]
      [] d.tag = "ReducedMotion" /\ Is(i, {"ReducedMotion"}) ->
            [p EXCEPT !.reduced_motion = d.val.reduced_motion]
      [] OTHER -> p

\* ----------------------------------------------------- callback registry
\* Callbacks::new: no entry, and the first handle is FIRST_HANDLE.
FIRST_HANDLE == 1

new == [callbacks |-> << >>, next_handle |-> FIRST_HANDLE]

\* CallbackHandle::default(): the handle that never matches an entry.
DefaultHandle == 0

\* The values stored in the registries of the runs checked.
Values == {"foo", "bar"}

\* usize::MAX for the modelled width.
UsizeMax == 2 ^ HandleBits - 1

\* The values add returns: Ok(CallbackHandle) and Err(OverflowError).
Ok(handle) == <<"Ok", handle>>
OverflowError == <<"Err", "OverflowError">>

\* Callbacks::iter: the stored values in the order of the vector.
iter(self) == [n \in 1..Len(self.callbacks) |-> self.callbacks[n].value]

\* The handles of the stored entries.
Handles(self) == {self.callbacks[n].handle : n \in 1..Len(self.callbacks)}

\* add that hands out the smallest handle no stored entry uses.
addReusingFreed(self, value) ==
    LET handle == CHOOSE h \in FIRST_HANDLE..(Len(self.callbacks) + 1) :
                      h \notin Handles(self)
    IN IF self.next_handle = UsizeMax
       THEN [self |-> self, res |-> OverflowError]
       ELSE [self |-> [callbacks |-> Append(self.callbacks,
                                       [handle |-> handle, value |-> value]),
                       next_handle |-> self.next_handle + 1],
             res |-> Ok(handle)]

\* add that puts the new entry in front of the older ones.
addAtFront(self, value) ==
    IF self.next_handle = UsizeMax
    THEN [self |-> self, res |-> OverflowError]
    ELSE [self |-> [callbacks |-> <<[handle |-> self.next_handle,
                                     value |-> value]>> \o self.callbacks,
                    next_handle |-> self.next_handle + 1],
          res |-> Ok(self.next_handle)]

\* add whose counter wraps around instead of failing.
addWrapping(self, value) ==
    [self |-> [callbacks |-> Append(self.callbacks,
                                    [handle |-> self.next_handle,
                                     value |-> value]),
               next_handle |-> (self.next_handle + 1) % (UsizeMax + 1)],
     res |-> Ok(self.next_handle)]

\* Callbacks::add: next_handle.checked_add(1) fails when next_handle is
\* usize::MAX, and `?` returns the error before anything is written.
\* Otherwise the entry gets the old next_handle and is pushed.  The result
\* holds the registry after the call and the value returned.
add(self, value) ==
    IF self.next_handle = UsizeMax
    THEN [self |-> self, res |-> OverflowError]
    ELSE [self |-> [callbacks |-> Append(self.callbacks,
                                         [handle |-> self.next_handle,
                                          value |-> value]),
                    next_handle |-> self.next_handle + 1],
          res |-> Ok(self.next_handle)]

\* remove that also drops every entry older than the handle.
removeUpTo(self, handle) ==
    [self EXCEPT !.callbacks =
        SelectSeq(self.callbacks, LAMBDA c : c.handle > handle)]

\* Callbacks::remove: retain(|c| c.handle != handle).
remove(self, handle) ==
    [self EXCEPT !.callbacks =
        SelectSeq(self.callbacks, LAMBDA c : c.handle # handle)]

\* ------------------------------------------------------------------ state
VARIABLES
    platform,      \* the target the crate was compiled for
    native,        \* the operating system's current preference values
    fired,         \* number of native notifications fired so far
    budget,        \* number of native notifications this run may fire
    onMain,        \* the application makes its call on the main thread
    api,           \* "none", "stream" or "subscribe": the call the app made
    interest,      \* the Interest passed to that call
    phase,         \* position of imp::PreferencesStream (see BackendPoll)
    source,        \* what follows the initial item: "empty", "scan", "raw"
    setup,         \* history: "none", "pending", "ok", "partial", "failed",
                   \* "panicked"
    initial,       \* the initial snapshot (also the seed of Scan)
    acc,           \* Scan: the accumulated snapshot (UnfoldState::Value)
    chan,          \* items sent by native callbacks, not yet received
    senders,       \* TRUE while some sender of chan is alive
    registered,    \* native registrations owned by the stream
    current,       \* Dedup::current: << >> is None, <<p>> is Some(p)
    alive,         \* TRUE from the creation of the stream until its drop
    woken,         \* TRUE when the consumer's waker has been invoked
    innerSeq,      \* history: items imp::PreferencesStream yielded
    emitted,       \* history: items the public PreferencesStream yielded
    sent,          \* history: items sent into chan
    folded,        \* history: items Scan took from chan
    scanOut,       \* history: items Scan yielded
    subscription,  \* "none", "empty" (Subscription(None)), "held", "dropped"
    rx,            \* once_future(receiver): "pending" or "yielded"
    taskPc,        \* background task: "none", "await", "callback", "done"
    calls,         \* history: snapshots the callback was invoked with
    returns,       \* history: number of callback invocations that returned
    endSeen,       \* history: the preference stream returned None to race
    comPc,         \* Windows COM thread: "none","start","hook","loop","done"
    msgq,          \* Windows: messages queued for the COM thread
    hooked,        \* Windows: the WM_SETTINGCHANGE hook is installed
    settings,      \* Windows: the fields struct Settings is able to read
    timer,         \* once_blocking's timer: "off", "armed" or "fired"
    result,        \* once_blocking: << >> until it returns, then the value
    registry,      \* a Callbacks<T>: [callbacks, next_handle]
    added,         \* history: [handle, value] of every add, in order
    addResult,     \* what the last call of add returned, << >> before it
    gone,          \* history: positions in `added` whose handle was removed
    guardPc,       \* Windows hook: position of each WindowsHookGuard
    strong,        \* Windows hook: strong count of the Arc<HookHandle>
    installed,     \* Windows hook: native hooks currently installed
    installs,      \* history: calls of SetWindowsHookExW that succeeded
    uninstalls,    \* history: native hooks that were unhooked
    interestOp,    \* operands of Interest's operations and their results
    teardown,      \* the registrations a stream owns and their release
    android,       \* Android: CALLBACKS' lock, the threads, the Java side
    fanout,        \* calls of the native entry points that read CALLBACKS
    scan           \* a Scan over a stream of its own, with its history

pipeVars == <<phase, acc, chan, current, innerSeq, emitted, folded, scanOut>>
setupVars == <<source, setup, initial, senders, registered>>
osVars == <<platform, native, fired, budget, onMain>>
taskVars == <<subscription, rx, taskPc, calls, returns, endSeen>>
comVars == <<comPc, msgq, hooked, settings>>
onceVars == <<timer, result>>
\* The state outside the stream and the subscription built on it.
regVars == <<registry, added, addResult, gone>>
hookVars == <<guardPc, strong, installed, installs, uninstalls>>
\* Operands and results of the pure operations checked on their own.
pureVars == <<interestOp, scan>>
\* The native registrations looked at on their own.
guardVars == <<teardown, android, fanout>>
libVars == <<onceVars, regVars, hookVars, pureVars, guardVars>>
\* The state of the stream and of the subscription built on it.
streamVars == <<osVars, api, interest, pipeVars, setupVars, alive, woken,
                sent, taskVars, comVars>>
vars == <<streamVars, libVars>>

\* ------------------------------------------------ Android subscriptions
Threads == 1..MaxThreads

\* android before any call.  lock: the thread holding the write lock of
\* CALLBACKS, 0 when it is free; pc, handle: each thread's position and the
\* handle of the Subscription it holds; subscribes: calls of subscribe so
\* far; java: MundySupport is subscribed; calls: history of the calls of
\* subscribe_java and unsubscribe_java with their outcome.
NoAndroid ==
    [lock |-> 0,
     pc |-> [t \in Threads |-> "idle"],
     handle |-> [t \in Threads |-> DefaultHandle],
     subscribes |-> 0,
     java |-> FALSE,
     calls |-> << >>]

\* Callbacks::is_empty: no callback is registered.
CallbacksIsEmpty(self) == self.callbacks = << >>

\* ------------------------------------------------- native entry points
\* The functions the operating system calls on a change: on Android the
\* public on_configuration_changed and the JNI export onPreferencesChanged,
\* on Windows hook_proc (on the main thread, which the hook is set for).
EntryPoints ==
    {"on_configuration_changed", "onPreferencesChanged", "hook_proc"}

EntryPointsOf(p) ==
    CASE p = "android" -> {"on_configuration_changed", "onPreferencesChanged"}
      [] p = "windows" -> {"hook_proc"}
      [] OTHER -> {}

\* fanout before any call.  pos: 0 while the entry point is not running,
\* else the position in CALLBACKS of the callback it invokes next (it holds
\* the read lock); called: the handles of the callbacks it invoked in the
\* running call; event: the number of the running call; events: calls so
\* far; delivered: per callback handle, the events its closure was invoked
\* for, that is what it sent into the channel of its stream (the last of
\* them is the snapshot the consumer of that stream ends with).
NoFanout ==
    [pos |-> [e \in EntryPoints |-> 0],
     called |-> [e \in EntryPoints |-> << >>],
     event |-> [e \in EntryPoints |-> 0],
     events |-> 0,
     delivered |-> [h \in 1..UsizeMax |-> << >>]]

\* ------------------------------------------------------- Scan on its own
\* The items the inner stream yields in the runs of Scan on its own, and
\* the calls of poll_next made.
MaxScanItems == 3

MaxScanPolls == 4

\* enum UnfoldState<T, Fut>, one record per variant.  A Future holds what
\* the fold function was called with; ready: the future will complete at
\* its next poll.
UnfoldValue(value) ==
    [tag |-> "Value", value |-> value, item |-> "none", ready |-> FALSE]

UnfoldFuture(value, item, ready) ==
    [tag |-> "Future", value |-> value, item |-> item, ready |-> ready]

UnfoldEmpty ==
    [tag |-> "Empty", value |-> 0, item |-> "none", ready |-> FALSE]

\* scan before Scan::new.  stream: the items the inner stream holds ready;
\* closed: the inner stream ends after them; state: the UnfoldState.
\* History: sends (items given to the inner stream), pulled (items taken
\* from it), innerPolls (polls of it), polledIn (the variants of the state
\* at those polls), folds (calls of the fold function), out (what each
\* poll_next returned), panicked (take_value().unwrap() met None).
NoScan ==
    [pc |-> "none", stream |-> << >>, closed |-> FALSE,
     state |-> UnfoldEmpty, sends |-> 0, pulled |-> 0, innerPolls |-> 0,
     polledIn |-> {}, folds |-> 0, out |-> << >>, panicked |-> FALSE]

\* ------------------------------------------------------------------- init
InitFrom(b, self) ==
    /\ platform \in Platforms
    /\ native \in InitialNatives
    /\ fired = 0
    /\ budget = b
    /\ onMain \in (IF platform = "macos" THEN BOOLEAN ELSE {TRUE})
    /\ api = "none"
    /\ interest = {}
    /\ phase = "none"
    /\ source = "empty"
    /\ setup = "none"
    /\ initial = DefaultPreferences
    /\ acc = DefaultPreferences
    /\ chan = << >>
    /\ senders = FALSE
    /\ registered = {}
    /\ current = << >>
    /\ alive = FALSE
    /\ woken = FALSE
    /\ innerSeq = << >>
    /\ emitted = << >>
    /\ sent = << >>
    /\ folded = << >>
    /\ scanOut = << >>
    /\ subscription = "none"
    /\ rx = "pending"
    /\ taskPc = "none"
    /\ calls = << >>
    /\ returns = 0
    /\ endSeen = FALSE
    /\ comPc = "none"
    /\ msgq = << >>
    /\ hooked = FALSE
    /\ settings = {}
    /\ timer = "off"
    /\ result = << >>
    /\ registry = self
    /\ added = << >>
    /\ addResult = << >>
    /\ gone = {}
    /\ guardPc = [g \in 1..MaxRegistrations |-> "none"]
    /\ strong = 0
    /\ installed = 0
    /\ installs = 0
    /\ uninstalls = 0
    /\ teardown = NoTeardown
    /\ android = NoAndroid
    /\ fanout = NoFanout
    /\ scan = NoScan

\* The process starts with the registries as Callbacks::new() makes them.
InitWith(b) == InitFrom(b, new)

\* No operation is applied on its own in the runs of the stream.
Init == InitWith(MaxNotifications) /\ interestOp = NoInterestOp

\* ------------------------------------------------- establishing a stream
\* The stream of one item used for an empty interest and as the degraded
\* stream: stream::once(AvailablePreferences::default()).
default_stream ==
    /\ phase' = "once"
    /\ source' = "empty"
    /\ initial' = DefaultPreferences
    /\ acc' = DefaultPreferences
    /\ senders' = FALSE
    /\ registered' = {}
    /\ UNCHANGED <<chan, sent, comVars>>

\* web::stream.  window: a window exists on the calling thread; queried:
\* the preferences whose media query could be created; listening: those
\* whose change listener could be added.  The function's own sender is
\* dropped on return, so the channel stays open only through listeners.
WebStream(i) ==
    \E window \in BOOLEAN : \E queried \in SUBSET i :
    \E listening \in SUBSET queried :
        IF ~window
        THEN default_stream /\ setup' = "failed"
        ELSE /\ phase' = "once"
             /\ source' = "scan"
             /\ setup' = "ok"
             /\ initial' = ReadPreferences("web", native, i, queried)
             /\ acc' = initial'
             /\ senders' = (listening # {})
             /\ registered' = listening
             /\ UNCHANGED <<chan, sent, comVars>>

\* What Observer::register registers for an interest: the KVO observer on
\* effectiveAppearance and the accessibility-options notification.
ObserverKinds(i) ==
    (IF Is(i, {"ColorScheme"}) THEN {"ColorScheme"} ELSE {})
        \cup (IF Is(i, MacOSAccessibility) THEN {"Accessibility"} ELSE {})

\* MainThreadMarker::new().expect(..) panicked: nothing was built.
Panicked ==
    /\ setup' = "panicked"
    /\ UNCHANGED <<phase, source, initial, acc, senders, registered, chan,
                   sent, comVars>>

\* macos::stream without the main-thread check.
MacosStreamAnyThread(i) ==
    /\ phase' = "once"
    /\ source' = "scan"
    /\ setup' = "ok"
    /\ initial' = ReadPreferences("macos", native, i, Kinds)
    /\ acc' = initial'
    /\ senders' = TRUE
    /\ registered' = ObserverKinds(i)
    /\ UNCHANGED <<chan, sent, comVars>>

\* macos::stream: it panics unless it is called on the main thread.  The
\* observer owns the sender, so the channel stays open for as long as the
\* stream lives.
MacosStream(i) ==
    IF ~onMain
    THEN Panicked
    ELSE /\ phase' = "once"
         /\ source' = "scan"
         /\ setup' = "ok"
         /\ initial' = ReadPreferences("macos", native, i, Kinds)
         /\ acc' = initial'
         /\ senders' = TRUE
         /\ registered' = ObserverKinds(i)
         /\ UNCHANGED <<chan, sent, comVars>>

\* freedesktop::stream: nothing happens until the stream is polled
\* (stream::once_future(subscribe(interest))).
LinuxStream(i) ==
    /\ phase' = "lazy"
    /\ source' = "empty"
    /\ setup' = "pending"
    /\ initial' = DefaultPreferences
    /\ acc' = DefaultPreferences
    /\ senders' = FALSE
    /\ registered' = {}
    /\ UNCHANGED <<chan, sent, comVars>>

\* android::stream.  subscribed: subscription::subscribe succeeded; read:
\* the fields get_preferences could read (none when attaching fails).
AndroidStream(i) ==
    \E subscribed \in BOOLEAN : \E read \in SUBSET i :
        IF ~subscribed
        THEN default_stream /\ setup' = "failed"
        ELSE /\ phase' = "once"
             /\ source' = "raw"
             /\ setup' = "ok"
             /\ initial' = ReadPreferences("android", native, i, read)
             /\ acc' = initial'
             /\ senders' = TRUE
             /\ registered' = {"callback"}
             /\ UNCHANGED <<chan, sent, comVars>>

\* windows::stream: spawns the COM thread; the stream is the receiver of
\* the channel the thread sends snapshots into (there is no once()).
WindowsStream(i) ==
    /\ phase' = "changes"
    /\ source' = "raw"
    /\ setup' = "pending"
    /\ initial' = DefaultPreferences
    /\ acc' = DefaultPreferences
    /\ senders' = TRUE
    /\ registered' = {}
    /\ comPc' = "start"
    /\ UNCHANGED <<chan, sent, msgq, hooked, settings>>

\* imp::stream for the compiled platform.
ImpStream(i) ==
    CASE platform = "web" -> WebStream(i)
      [] platform = "macos" -> MacosStream(i)
      [] platform = "linux" -> LinuxStream(i)
      [] platform = "android" -> AndroidStream(i)
      [] platform = "windows" -> WindowsStream(i)

\* PreferencesStream without the short circuit for an empty interest.
PreferencesStreamAlwaysImp(i) ==
    /\ ImpStream(i)
    /\ interest' = i
    /\ current' = << >>
    /\ alive' = (setup' # "panicked")
    /\ woken' = alive'
    /\ UNCHANGED <<innerSeq, emitted, folded, scanOut>>

\* Preferences::stream: default_stream for an empty interest, imp::stream
\* otherwise, wrapped in Dedup::new (current = None).  No stream exists
\* when imp::stream panicked.
PreferencesStream(i) ==
    /\ IF IsEmpty(i) THEN default_stream /\ setup' = "none" ELSE ImpStream(i)
    /\ interest' = i
    /\ current' = << >>
    /\ alive' = (setup' # "panicked")
    /\ woken' = alive'
    /\ UNCHANGED <<innerSeq, emitted, folded, scanOut>>

\* ---------------------------------------------------- polling the stream
\* The result of a poll_next call: res is "item" (Ready(Some(item))),
\* "end" (Ready(None)) or "pending"; wake tells whether the callee invoked
\* the waker itself; the other fields are the state the call leaves.
PollResult(res, item, wake, ph, a, c, cur, inn, em, fo, so) ==
    [res |-> res, item |-> item, wake |-> wake, phase |-> ph, acc |-> a,
     chan |-> c, current |-> cur, innerSeq |-> inn, emitted |-> em,
     folded |-> fo, scanOut |-> so]

Pending(ph) ==
    PollResult("pending", DefaultPreferences, FALSE, ph, acc, chan, current,
               innerSeq, emitted, folded, scanOut)

Ended ==
    PollResult("end", DefaultPreferences, FALSE, "ended", acc, chan, current,
               innerSeq, emitted, folded, scanOut)

\* The closure given to Scan::new: web and macos apply the Preference,
\* freedesktop applies the message under the interest.
Fold(d, p) ==
    IF platform = "linux" THEN ApplyMessage(interest, d, p)
    ELSE ApplyPreference(d, p)

\* ScanPoll that folds every delta into the seed instead of the accumulator.
ScanPollFromSeed ==
    IF chan # << >>
    THEN LET d == Head(chan)
             s == Fold(d, initial)
         IN PollResult("item", s, FALSE, "changes", s, Tail(chan), current,
                       Append(innerSeq, s), emitted, Append(folded, d),
                       Append(scanOut, s))
    ELSE IF senders THEN Pending("changes") ELSE Ended

\* ScanPoll that takes the newest queued delta instead of the oldest.
ScanPollNewestFirst ==
    IF chan # << >>
    THEN LET d == chan[Len(chan)]
             s == Fold(d, acc)
         IN PollResult("item", s, FALSE, "changes", s,
                       SubSeq(chan, 1, Len(chan) - 1), current,
                       Append(innerSeq, s), emitted, Append(folded, d),
                       Append(scanOut, s))
    ELSE IF senders THEN Pending("changes") ELSE Ended

\* Scan::poll_next over the channel: one delta is taken, folded into the
\* accumulator, and the new accumulator is both kept and yielded.
ScanPoll ==
    IF chan # << >>
    THEN LET d == Head(chan)
             s == Fold(d, acc)
         IN PollResult("item", s, FALSE, "changes", s, Tail(chan), current,
                       Append(innerSeq, s), emitted, Append(folded, d),
                       Append(scanOut, s))
    ELSE IF senders THEN Pending("changes") ELSE Ended

\* ReceiverPoll that does not notice that every sender is gone.
ReceiverPollNeverEnds ==
    IF chan # << >>
    THEN LET s == Head(chan).val
         IN PollResult("item", s, FALSE, "changes", acc, Tail(chan), current,
                       Append(innerSeq, s), emitted, folded, scanOut)
    ELSE Pending("changes")

\* Polling the receiver of a channel of complete snapshots (android,
\* windows).
ReceiverPoll ==
    IF chan # << >>
    THEN LET s == Head(chan).val
         IN PollResult("item", s, FALSE, "changes", acc, Tail(chan), current,
                       Append(innerSeq, s), emitted, folded, scanOut)
    ELSE IF senders THEN Pending("changes") ELSE Ended

\* BackendPoll with the initial item no longer ordered before the changes:
\* a queued change is yielded while stream::once still holds its item.
BackendPollChangesFirst ==
    CASE phase = "lazy" -> Pending("connecting")
      [] phase = "connecting" -> Pending("connecting")
      [] phase = "once" /\ source = "scan" /\ chan # << >> ->
            [ScanPoll EXCEPT !.phase = "once"]
      [] phase = "once" /\ source = "raw" /\ chan # << >> ->
            [ReceiverPoll EXCEPT !.phase = "once"]
      [] phase = "once" ->
            PollResult("item", initial, FALSE, "changes", acc, chan, current,
                       Append(innerSeq, initial), emitted, folded, scanOut)
      [] phase = "changes" /\ source = "scan" -> ScanPoll
      [] phase = "changes" /\ source = "raw" -> ReceiverPoll
      [] OTHER -> Ended

\* imp::PreferencesStream::poll_next.
\*   lazy:       freedesktop's subscribe future has not been polled yet
\*   connecting: that future is waiting for the session bus
\*   once:       stream::once(initial) still holds its item
\*   changes:    the chained change stream is being polled
BackendPoll ==
    CASE phase = "lazy" -> Pending("connecting")
      [] phase = "connecting" -> Pending("connecting")
      [] phase = "once" ->
            PollResult("item", initial, FALSE, "changes", acc, chan, current,
                       Append(innerSeq, initial), emitted, folded, scanOut)
      [] phase = "changes" /\ source = "scan" -> ScanPoll
      [] phase = "changes" /\ source = "raw" -> ReceiverPoll
      [] OTHER -> Ended

\* DedupPoll that forgets to store the item it yields in `current`.
DedupPollNoStore ==
    LET b == BackendPoll
    IN IF b.res = "item"
       THEN IF current # <<b.item>>
            THEN [b EXCEPT !.item = ToPreferences(b.item),
                           !.emitted = Append(emitted, ToPreferences(b.item))]
            ELSE [b EXCEPT !.res = "pending", !.wake = TRUE]
       ELSE b

\* DedupPoll that returns Pending for a duplicate without invoking the
\* waker.
DedupPollNoWake ==
    LET b == BackendPoll
    IN IF b.res = "item"
       THEN IF current # <<b.item>>
            THEN [b EXCEPT !.current = <<b.item>>,
                           !.item = ToPreferences(b.item),
                           !.emitted = Append(emitted, ToPreferences(b.item))]
            ELSE [b EXCEPT !.res = "pending", !.wake = FALSE]
       ELSE b

\* DedupPoll that polls the inner stream a second time in the same call
\* when the first item was a duplicate and a further delta is queued.
DedupPollAgain ==
    LET b == BackendPoll
    IN IF b.res = "item"
       THEN IF current # <<b.item>>
            THEN [b EXCEPT !.current = <<b.item>>,
                           !.item = ToPreferences(b.item),
                           !.emitted = Append(emitted, ToPreferences(b.item))]
            ELSE IF b.chan = << >> \/ b.phase # "changes"
            THEN [b EXCEPT !.res = "pending", !.wake = TRUE]
            ELSE LET d == Head(b.chan)
                     folding == source = "scan"
                     s == IF folding THEN Fold(d, b.acc) ELSE d.val
                     c == [b EXCEPT
                              !.chan = Tail(b.chan),
                              !.acc = IF folding THEN s ELSE b.acc,
                              !.innerSeq = Append(b.innerSeq, s),
                              !.folded = IF folding THEN Append(b.folded, d)
                                         ELSE b.folded,
                              !.scanOut = IF folding THEN Append(b.scanOut, s)
                                          ELSE b.scanOut]
                 IN IF current # <<s>>
                    THEN [c EXCEPT
                             !.item = ToPreferences(s),
                             !.current = <<s>>,
                             !.emitted = Append(emitted, ToPreferences(s))]
                    ELSE [c EXCEPT !.res = "pending", !.wake = TRUE]
       ELSE b

\* Dedup::poll_next followed by PreferencesStream::poll_next's conversion:
\* the inner stream is polled once; an item different from `current` is
\* stored and yielded, an equal one is dropped and the waker is invoked.
DedupPoll ==
    LET b == BackendPoll
    IN IF b.res = "item"
       THEN IF current # <<b.item>>
            THEN [b EXCEPT !.current = <<b.item>>,
                           !.item = ToPreferences(b.item),
                           !.emitted = Append(emitted, ToPreferences(b.item))]
            ELSE [b EXCEPT !.res = "pending", !.wake = TRUE]
       ELSE b

\* The state a poll of the public stream leaves behind.
Advance(d) ==
    /\ phase' = d.phase
    /\ acc' = d.acc
    /\ chan' = d.chan
    /\ current' = d.current
    /\ innerSeq' = d.innerSeq
    /\ emitted' = d.emitted
    /\ folded' = d.folded
    /\ scanOut' = d.scanOut

\* DropStream without Shutdown::drop: the COM thread is left to notice by
\* itself that the stream is gone.
DropStreamSilently ==
    /\ alive' = FALSE
    /\ registered' = {}
    /\ chan' = << >>
    /\ msgq' = msgq
    /\ senders' = IF platform = "windows" THEN senders ELSE FALSE

\* Dropping PreferencesStream: the receiver and every guard are dropped; on
\* Windows, Shutdown::drop sends Message::Shutdown to the COM thread.
DropStream ==
    /\ alive' = FALSE
    /\ registered' = {}
    /\ chan' = << >>
    /\ msgq' = IF comPc \in {"start", "hook", "loop"}
               THEN Append(msgq, "Shutdown") ELSE msgq
    /\ senders' = IF platform = "windows" THEN senders ELSE FALSE

\* --------------------------------------------------- native notifications
\* SettingChanged signals are filtered by namespace (signal_filter): only
\* org.freedesktop.appearance unless the interest contains GnomeOnly.
SignalPasses(k) ==
    \/ Is(interest, GnomeOnly)
    \/ k \in {"ColorScheme", "Contrast"}

\* The items the native callback for preference k sends into the channel
\* when the notification fires with OS values nat (none if nothing that is
\* registered listens to k).  read: the fields Android is able to read.
Notification(k, nat, read) ==
    CASE platform = "web" /\ k \in registered ->
            <<Delta(k, Set(DefaultPreferences, k, Get(nat, k)))>>
      [] platform = "macos" /\ k = "ColorScheme" /\ k \in registered ->
            <<Delta(k, Set(DefaultPreferences, k, Get(nat, k)))>>
      [] platform = "macos" /\ k \in MacOSAccessibility
                            /\ "Accessibility" \in registered ->
            <<Delta("Accessibility",
                    [DefaultPreferences EXCEPT
                        !.contrast = nat.contrast,
                        !.reduced_motion = nat.reduced_motion])>>
      [] platform = "linux" /\ "SettingChanged" \in registered
                            /\ SignalPasses(k) ->
            <<Delta(k, Set(DefaultPreferences, k, Get(nat, k)))>>
      [] platform = "android" /\ "callback" \in registered ->
            <<Delta("Snapshot", ReadPreferences("android", nat, interest, read))>>
      [] OTHER -> << >>

\* Fire whose send succeeds although the receiver is gone.
FireIntoClosedChannel(k, nat) ==
    /\ api # "none"
    /\ fired < budget
    /\ fired' = fired + 1
    /\ native' = nat
    /\ \E read \in {interest, {}} :
          LET items == Notification(k, nat, read)
          IN /\ chan' = chan \o items
             /\ sent' = sent \o items
             /\ woken' = (woken \/ items # << >>)
    /\ msgq' = IF hooked THEN Append(msgq, "WM_SETTINGCHANGE") ELSE msgq
    /\ UNCHANGED <<platform, budget, onMain, api, interest, phase, acc,
                   current, innerSeq, emitted, folded, scanOut, setupVars,
                   alive, taskVars, comPc, hooked, settings>>
    /\ UNCHANGED libVars

\* A native notification for preference k fires while the OS holds nat.
\* Windows only queues WM_SETTINGCHANGE for the COM thread.  A run starts
\* with the application's call, so earlier notifications are not modelled
\* (InitialNatives stands for their effect).  unbounded_send fails once the
\* receiver is dropped, and every callback discards that result.
Fire(k, nat) ==
    /\ api # "none"
    /\ fired < budget
    /\ fired' = fired + 1
    /\ native' = nat
    /\ \E read \in {interest, {}} :
          LET items == Notification(k, nat, read)
          IN /\ chan' = IF alive THEN chan \o items ELSE chan
             /\ sent' = IF alive THEN sent \o items ELSE sent
             /\ woken' = (woken \/ (alive /\ items # << >>))
    /\ msgq' = IF hooked THEN Append(msgq, "WM_SETTINGCHANGE") ELSE msgq
    /\ UNCHANGED <<platform, budget, onMain, api, interest, phase, acc,
                   current, innerSeq, emitted, folded, scanOut, setupVars,
                   alive, taskVars, comPc, hooked, settings>>
    /\ UNCHANGED libVars

\* The values carried by a SettingChanged signal that is not one of the
\* three settings.
ForeignValue ==
    [color_scheme |-> "Dark", contrast |-> "More", reduced_motion |-> "Reduce"]

\* The settings portal emits a SettingChanged signal that passes the
\* signal filter and is either not a (namespace, key, value) triple or
\* names a key that apply_message does not know.
ForeignSignal ==
    /\ platform = "linux"
    /\ api # "none"
    /\ "SettingChanged" \in registered
    /\ fired < budget
    /\ fired' = fired + 1
    /\ \E tag \in {"Malformed", "Unknown"} :
          /\ chan' = Append(chan, Delta(tag, ForeignValue))
          /\ sent' = Append(sent, Delta(tag, ForeignValue))
    /\ woken' = TRUE
    /\ UNCHANGED <<platform, native, budget, onMain, api, interest, phase,
                   acc, current, innerSeq, emitted, folded, scanOut,
                   setupVars, alive, taskVars, comVars>>
    /\ UNCHANGED libVars

\* The user changes preference k to v and the OS notifies.
NativeChange ==
    \E k \in Kinds : \E v \in ValuesOf(k) :
        /\ v # Get(native, k)
        /\ Fire(k, Set(native, k, v))

\* A notification that is broader than necessary: it fires although the
\* value it reports did not change (not raised by media-query listeners).
NativeNotify ==
    /\ platform # "web"
    /\ \E k \in Kinds : Fire(k, native)

\* freedesktop::subscribe completes.  connected: the session bus and the
\* settings proxy are available; signal: receive_signal_with_args worked;
\* read: the settings that could be read.
LinuxSubscribed ==
    /\ platform = "linux"
    /\ phase = "connecting"
    /\ alive
    /\ \E connected \in BOOLEAN : \E signal \in BOOLEAN :
       \E read \in SUBSET interest :
          /\ initial' = IF connected
                        THEN ReadPreferences("linux", native, interest, read)
                        ELSE DefaultPreferences
          /\ acc' = initial'
          /\ source' = IF connected /\ signal THEN "scan" ELSE "empty"
          /\ setup' = IF ~connected THEN "failed"
                      ELSE IF signal THEN "ok" ELSE "partial"
          /\ senders' = (connected /\ signal)
          /\ registered' = IF connected /\ signal
                           THEN {"SettingChanged"} ELSE {}
    /\ phase' = "once"
    /\ woken' = TRUE
    /\ UNCHANGED <<osVars, api, interest, chan, current, innerSeq, emitted,
                   folded, scanOut, alive, sent, taskVars, comVars>>
    /\ UNCHANGED libVars

\* ------------------------------------------------------ Windows COM thread
\* A snapshot sent by the COM thread reaches the channel unless the
\* receiver is gone (the failed send is ignored).
ComSend(p) ==
    /\ chan' = IF alive THEN Append(chan, Delta("Snapshot", p)) ELSE chan
    /\ sent' = IF alive THEN Append(sent, Delta("Snapshot", p)) ELSE sent
    /\ woken' = TRUE

\* Settings::new: UISettings serves color scheme and reduced motion,
\* AccessibilitySettings serves contrast; either may be unavailable.
SettingsChoices ==
    {ui \cup accessibility :
        ui \in {{}, {"ColorScheme", "ReducedMotion"}},
        accessibility \in {{}, {"Contrast"}}}

\* com_thread up to the first send: COM initialisation, Settings::new and
\* the initial read.  When COM cannot be initialised the default snapshot
\* is sent and the thread returns, which drops the sender.
ComStart ==
    /\ comPc = "start"
    /\ \E com \in BOOLEAN : \E readable \in SettingsChoices :
          IF com
          THEN /\ settings' = readable
               /\ initial' = ReadPreferences("windows", native, interest,
                                             readable)
               /\ comPc' = "hook"
               /\ senders' = senders
               /\ setup' = "ok"
          ELSE /\ settings' = settings
               /\ initial' = DefaultPreferences
               /\ comPc' = "done"
               /\ senders' = FALSE
               /\ setup' = "failed"
    /\ ComSend(initial')
    /\ UNCHANGED <<osVars, api, interest, phase, acc, current, innerSeq,
                   emitted, folded, scanOut, source, registered, alive,
                   taskVars, msgq, hooked>>
    /\ UNCHANGED libVars

\* register_wm_settingchange_hook: a failure is logged and ignored.
ComHook ==
    /\ comPc = "hook"
    /\ \E ok \in BOOLEAN :
          /\ hooked' = ok
          /\ setup' = IF ok THEN setup ELSE "partial"
    /\ comPc' = "loop"
    /\ UNCHANGED <<osVars, api, interest, pipeVars, source, initial, senders,
                   registered, alive, woken, sent, taskVars, msgq, settings>>
    /\ UNCHANGED libVars

\* One iteration of `while let Ok(message) = msg_rx.recv()`.
ComRecv ==
    /\ comPc = "loop"
    /\ msgq # << >>
    /\ msgq' = Tail(msgq)
    /\ IF Head(msgq) = "Shutdown"
       THEN /\ comPc' = "done"
            /\ hooked' = FALSE
            /\ senders' = FALSE
            /\ woken' = TRUE
            /\ UNCHANGED <<chan, sent>>
       ELSE /\ ComSend(ReadPreferences("windows", native, interest, settings))
            /\ UNCHANGED <<comPc, hooked, senders>>
    /\ UNCHANGED <<osVars, api, interest, phase, acc, current, innerSeq,
                   emitted, folded, scanOut, source, setup, initial,
                   registered, alive, taskVars, settings>>
    /\ UNCHANGED libVars

\* ------------------------------------------------ consuming a stream
\* The application calls Preferences::stream(i) and polls the stream from
\* a task of its own.
CallStream ==
    /\ api = "none"
    /\ api' = "stream"
    /\ \E i \in SUBSET Kinds : PreferencesStream(i)
    /\ UNCHANGED <<osVars, taskVars>>
    /\ UNCHANGED libVars

\* One poll_next call on the public stream by the application's task.
StreamPoll ==
    /\ api = "stream"
    /\ alive
    /\ woken
    /\ LET d == DedupPoll
       IN /\ Advance(d)
          /\ woken' = (d.res = "item" \/ d.wake)
          /\ endSeen' = (endSeen \/ d.res = "end")
    /\ UNCHANGED <<osVars, api, interest, setupVars, alive, sent,
                   subscription, rx, taskPc, calls, returns, comVars>>
    /\ UNCHANGED libVars

\* The application drops the stream.
StreamDrop ==
    /\ api = "stream"
    /\ alive
    /\ DropStream
    /\ UNCHANGED <<osVars, api, interest, phase, acc, current, innerSeq,
                   emitted, folded, scanOut, source, setup, initial, woken,
                   sent, taskVars, comPc, hooked, settings>>
    /\ UNCHANGED libVars

\* The application drops a macOS stream, in the order of its fields: inner
\* with the receiver first, then the ObserverRegistration, whose drop
\* queues the removal of the effectiveAppearance observer for the main
\* thread and removes the other observers at once.
StreamDropDeferred ==
    /\ platform = "macos"
    /\ api = "stream"
    /\ alive
    /\ alive' = FALSE
    /\ chan' = << >>
    /\ registered' = registered \cap {"ColorScheme"}
    /\ senders' = (registered' # {})
    /\ UNCHANGED <<osVars, api, interest, phase, acc, current, innerSeq,
                   emitted, folded, scanOut, source, setup, initial, woken,
                   sent, taskVars, comVars>>
    /\ UNCHANGED libVars

\* The main thread runs the closure of run_on_main_async: the observer is
\* removed and released, and its sender with it.
RemoveObserverOnMain ==
    /\ platform = "macos"
    /\ ~alive
    /\ registered # {}
    /\ registered' = {}
    /\ senders' = FALSE
    /\ UNCHANGED <<osVars, api, interest, pipeVars, source, setup, initial,
                   alive, woken, sent, taskVars, comVars>>
    /\ UNCHANGED libVars

\* ------------------------------------------------------------ subscription
\* Subscribe without the early return for an empty interest.
SubscribeNoShortCircuit ==
    /\ api = "none"
    /\ api' = "subscribe"
    /\ \E i \in SUBSET Kinds :
          /\ PreferencesStream(i)
          /\ IF setup' = "panicked"
             THEN UNCHANGED <<subscription, rx, taskPc>>
             ELSE /\ subscription' = "held"
                  /\ rx' = "pending"
                  /\ taskPc' = "await"
    /\ UNCHANGED <<osVars, calls, returns, endSeen>>
    /\ UNCHANGED libVars

\* Preferences::subscribe(i, callback).  An empty interest returns
\* Subscription(None); otherwise the stream is created on the calling
\* thread (a panic there leaves subscribe before anything is spawned),
\* raced against the oneshot receiver, and the task is spawned.
Subscribe ==
    /\ api = "none"
    /\ api' = "subscribe"
    /\ \E i \in SUBSET Kinds :
          IF IsEmpty(i)
          THEN /\ subscription' = "empty"
               /\ interest' = i
               /\ UNCHANGED <<pipeVars, setupVars, alive, woken, sent,
                              rx, taskPc, comVars>>
          ELSE /\ PreferencesStream(i)
               /\ IF setup' = "panicked"
                  THEN UNCHANGED <<subscription, rx, taskPc>>
                  ELSE /\ subscription' = "held"
                       /\ rx' = "pending"
                       /\ taskPc' = "await"
    /\ UNCHANGED <<osVars, calls, returns, endSeen>>
    /\ UNCHANGED libVars

\* DropSubscription that does not wake the task waiting on the receiver.
DropSubscriptionSilent ==
    /\ subscription \in {"held", "empty"}
    /\ subscription' = "dropped"
    /\ UNCHANGED <<osVars, api, interest, pipeVars, setupVars, alive, woken,
                   sent, rx, taskPc, calls, returns, endSeen, comVars>>
    /\ UNCHANGED libVars

\* Dropping the Subscription drops the oneshot sender, which completes the
\* receiver and wakes the task that waits on it.
DropSubscription ==
    /\ subscription \in {"held", "empty"}
    /\ subscription' = "dropped"
    /\ woken' = IF subscription = "held" THEN TRUE ELSE woken
    /\ UNCHANGED <<osVars, api, interest, pipeVars, setupVars, alive, sent,
                   rx, taskPc, calls, returns, endSeen, comVars>>
    /\ UNCHANGED libVars

\* stream::once_future(receiver).map(|_| Message::Shutdown): yields its
\* one item as soon as the sender is dropped, and ends after it.
ShutdownPoll ==
    IF rx = "yielded" THEN "end"
    ELSE IF subscription = "dropped" THEN "item" ELSE "pending"

\* CanPoll that lets the next message be awaited while the callback runs.
CanPollDuringCallback == taskPc \in {"await", "callback"} /\ woken

\* The task may poll when it waits in stream.next().await and was woken.
CanPoll == taskPc = "await" /\ woken

\* Invoke that takes the snapshot from the stream without calling back.
InvokeDiscarding(d) ==
    /\ Advance(d)
    /\ woken' = TRUE
    /\ UNCHANGED <<rx, endSeen, returns, alive, registered, senders, msgq,
                   taskPc, calls>>

\* Message::Preferences(p) => callback(p): the invocation begins.
Invoke(d) ==
    /\ Advance(d)
    /\ taskPc' = "callback"
    /\ calls' = Append(calls, d.item)
    /\ woken' = TRUE
    /\ UNCHANGED <<rx, endSeen, returns, alive, registered, senders, msgq>>

\* Message::Shutdown => break: the future completes and the stream it owns
\* is dropped.  polled: stream 1 was polled (pending or ended) before.
Shutdown(d, polled) ==
    /\ rx' = "yielded"
    /\ taskPc' = "done"
    /\ DropStream
    /\ phase' = IF polled THEN d.phase ELSE phase
    /\ endSeen' = (endSeen \/ (polled /\ d.res = "end"))
    /\ woken' = woken
    /\ UNCHANGED <<acc, current, innerSeq, emitted, folded, scanOut, calls,
                   returns>>

\* The raced stream returned None: the while-let loop ends and the stream
\* is dropped.
LoopEnd(d) ==
    /\ taskPc' = "done"
    /\ DropStream
    /\ phase' = d.phase
    /\ endSeen' = (endSeen \/ d.res = "end")
    /\ woken' = woken
    /\ UNCHANGED <<acc, current, innerSeq, emitted, folded, scanOut, calls,
                   returns, rx>>

\* The raced stream returned Pending: the task sleeps until it is woken.
Park(d) ==
    /\ Advance(d)
    /\ woken' = d.wake
    /\ endSeen' = (endSeen \/ d.res = "end")
    /\ UNCHANGED <<rx, taskPc, calls, returns, alive, registered, senders,
                   msgq>>

\* One poll of the raced stream by stream.next().await.  Race polls its two
\* streams in an order picked at random for every poll; the stream polled
\* first wins if it has an item, otherwise the stream polled second is
\* polled and its result is returned.  (Race is futures-lite's; a Race
\* that answers Pending whenever neither stream has an item behaves as the
\* runs below in which the preference stream is polled first.)
TaskPoll ==
    /\ CanPoll
    /\ LET d == DedupPoll
           c == ShutdownPoll
       IN \E first \in {1, 2} :
             IF first = 1
             THEN CASE d.res = "item" -> Invoke(d)
                    [] d.res # "item" /\ c = "item" -> Shutdown(d, TRUE)
                    [] d.res # "item" /\ c = "pending" -> Park(d)
                    [] OTHER -> LoopEnd(d)
             ELSE CASE c = "item" -> Shutdown(d, FALSE)
                    [] c # "item" /\ d.res = "item" -> Invoke(d)
                    [] c # "item" /\ d.res = "pending" -> Park(d)
                    [] OTHER -> LoopEnd(d)
    /\ UNCHANGED <<osVars, api, interest, source, setup, initial, sent,
                   subscription, comPc, hooked, settings>>
    /\ UNCHANGED libVars

\* The callback returns and the loop awaits the next message.
CallbackReturn ==
    /\ taskPc = "callback"
    /\ taskPc' = "await"
    /\ returns' = returns + 1
    /\ woken' = TRUE
    /\ UNCHANGED <<osVars, api, interest, pipeVars, setupVars, alive, sent,
                   subscription, rx, calls, endSeen, comVars>>
    /\ UNCHANGED libVars

\* ----------------------------------------------------------- once_blocking
\* The value once_blocking returns: << >> while it has not returned.
None == <<"None">>
Some(p) == <<"Some", p>>

\* The backend's once_blocking returns p at once, without a stream.
SyncReturn(p) ==
    /\ result' = Some(ToPreferences(p))
    /\ initial' = p
    /\ UNCHANGED <<pipeVars, source, setup, senders, registered, alive, woken,
                   sent, comVars>>

\* web::once_blocking: the default snapshot without a window, else the
\* values of the media queries that could be created.
WebOnceBlocking(i) ==
    \E window \in BOOLEAN : \E queried \in SUBSET i :
        SyncReturn(IF window THEN ReadPreferences("web", native, i, queried)
                   ELSE DefaultPreferences)

\* macos::once_blocking: it panics unless it is called on the main thread.
MacosOnceBlocking(i) ==
    IF ~onMain
    THEN Panicked /\ UNCHANGED <<result, pipeVars, alive, woken>>
    ELSE SyncReturn(ReadPreferences("macos", native, i, Kinds))

\* android::once_blocking: get_preferences, the default when the JVM or
\* the support class cannot be reached.
AndroidOnceBlocking(i) ==
    \E read \in SUBSET i :
        SyncReturn(ReadPreferences("android", native, i, read))

\* freedesktop::once_blocking: block_on(stream(interest).next().or(timer)).
\* The stream is the backend's (no Dedup); block_on starts by polling.
LinuxOnceBlocking(i) ==
    /\ LinuxStream(i)
    /\ result' = << >>
    /\ current' = << >>
    /\ alive' = TRUE
    /\ woken' = TRUE
    /\ UNCHANGED <<innerSeq, emitted, folded, scanOut>>

\* once_blocking of the windows module: the first item of the stream raced
\* against the timer.
WindowsOnceBlocking(i) ==
    /\ WindowsStream(i)
    /\ result' = << >>
    /\ current' = << >>
    /\ alive' = TRUE
    /\ woken' = TRUE
    /\ UNCHANGED <<innerSeq, emitted, folded, scanOut>>

\* imp::once_blocking for the compiled platform.
ImpOnceBlocking(i) ==
    CASE platform = "web" -> WebOnceBlocking(i)
      [] platform = "macos" -> MacosOnceBlocking(i)
      [] platform = "linux" -> LinuxOnceBlocking(i)
      [] platform = "android" -> AndroidOnceBlocking(i)
      [] platform = "windows" -> WindowsOnceBlocking(i)

\* CallOnceBlocking without the early return for an empty interest.
CallOnceBlockingAlwaysImp ==
    /\ api = "none"
    /\ api' = "once"
    /\ \E i \in SUBSET Kinds : \E zero \in BOOLEAN :
          /\ interest' = i
          /\ ImpOnceBlocking(i)
          /\ timer' = IF setup' = "panicked" THEN "off"
                      ELSE IF zero THEN "fired" ELSE "armed"
    /\ UNCHANGED <<osVars, taskVars>>
    /\ UNCHANGED <<regVars, hookVars, pureVars, guardVars>>

\* Preferences::once_blocking(i, timeout).  zero: the timeout is zero, so
\* the timer is ready at the first poll.
CallOnceBlocking ==
    /\ api = "none"
    /\ api' = "once"
    /\ \E i \in SUBSET Kinds : \E zero \in BOOLEAN :
          /\ interest' = i
          /\ IF IsEmpty(i)
             THEN /\ result' = Some(ToPreferences(DefaultPreferences))
                  /\ UNCHANGED <<pipeVars, setupVars, alive, woken, sent,
                                 comVars>>
             ELSE ImpOnceBlocking(i)
          /\ timer' = IF setup' = "panicked" THEN "off"
                      ELSE IF zero THEN "fired" ELSE "armed"
    /\ UNCHANGED <<osVars, taskVars>>
    /\ UNCHANGED <<regVars, hookVars, pureVars, guardVars>>

\* The timeout elapses while once_blocking is blocked.
TimerFires ==
    /\ api = "once"
    /\ result = << >>
    /\ timer = "armed"
    /\ timer' = "fired"
    /\ woken' = TRUE
    /\ UNCHANGED <<osVars, api, interest, pipeVars, setupVars, alive, sent,
                   taskVars, comVars, result>>
    /\ UNCHANGED <<regVars, hookVars, pureVars, guardVars>>

\* OnceOutcome with the timer given precedence over the stream.
OnceOutcomeTimerFirst ==
    LET b == BackendPoll
    IN IF timer = "fired" THEN None
       ELSE IF b.res = "item" THEN Some(ToPreferences(b.item))
       ELSE IF b.res = "end" THEN None
       ELSE << >>

\* One poll of stream.next().or(timer): `or` polls next() first and the
\* timer only when next() is pending.  << >> stands for Pending.
OnceOutcome ==
    LET b == BackendPoll
    IN IF b.res = "item" THEN Some(ToPreferences(b.item))
       ELSE IF b.res = "end" THEN None
       ELSE IF timer = "fired" THEN None
       ELSE << >>

\* block_on polls the future; when it completes the stream is dropped and
\* once_blocking returns.
OncePoll ==
    /\ api = "once"
    /\ result = << >>
    /\ alive
    /\ woken
    /\ LET b == BackendPoll
           o == OnceOutcome
       IN /\ result' = o
          /\ phase' = b.phase
          /\ acc' = b.acc
          /\ innerSeq' = b.innerSeq
          /\ folded' = b.folded
          /\ scanOut' = b.scanOut
          /\ IF o = << >>
             THEN /\ chan' = b.chan
                  /\ woken' = FALSE
                  /\ UNCHANGED <<alive, registered, senders, msgq>>
             ELSE /\ DropStream
                  /\ woken' = woken
    /\ UNCHANGED <<osVars, api, interest, current, emitted, source, setup,
                   initial, sent, taskVars, comPc, hooked, settings, timer>>
    /\ UNCHANGED <<regVars, hookVars, pureVars, guardVars>>

\* ------------------------------------------------ the lock of CALLBACKS
\* Some entry point holds a read guard of CALLBACKS.
ReadLocked == \E e \in EntryPoints : fanout.pos[e] # 0

\* A write that does not wait for the readers.
CanWriteWhileRead == android.lock = 0

\* CALLBACKS.write() returns: no other guard of the RwLock is alive.
CanWrite == android.lock = 0 /\ ~ReadLocked

\* CALLBACKS.read() returns: no write guard is alive.
CanRead == android.lock = 0

\* ----------------------------------------------- callback registry calls
\* One call of Callbacks::add with the given value; the history records
\* the handle of a call that succeeded.
AddCall(value) ==
    LET r == add(registry, value)
    IN /\ registry' = r.self
       /\ addResult' = r.res
       /\ added' = IF r.res = OverflowError THEN added
                   ELSE Append(added, [handle |-> r.res[2], value |-> value])
       /\ UNCHANGED <<gone, streamVars, onceVars, pureVars, guardVars,
                      hookVars>>

Add ==
    /\ Len(added) < MaxAdds
    /\ \E value \in Values : AddCall(value)

\* One call of Callbacks::remove with the given handle.
RemoveCall(handle) ==
    /\ registry' = remove(registry, handle)
    /\ UNCHANGED <<added, addResult, streamVars, onceVars, pureVars,
                   guardVars, hookVars>>

\* remove called with a handle that an add returned, whether or not it was
\* removed before.
RemoveIssued ==
    \E n \in 1..Len(added) :
        /\ RemoveCall(added[n].handle)
        /\ gone' = gone \cup {n}

\* remove called with the default handle, or with a handle that this
\* registry has not issued.
RemoveUnissued ==
    \E handle \in {DefaultHandle, registry.next_handle,
                    registry.next_handle + 1} \cap (0..UsizeMax) :
        /\ RemoveCall(handle)
        /\ UNCHANGED gone

\* ------------------------------------------------------- windows hook
\* The guards whose Arc<HookHandle> is alive.
Held == {g \in 1..MaxRegistrations : guardPc[g] = "held"}

\* register_windows_hook, first half: register_callback adds the closure
\* to CALLBACKS under its write lock; when add fails the error is returned
\* and no guard exists.  The closure of the g-th call is written g.
RegisterCallback ==
    /\ CanWrite
    /\ \E g \in 1..MaxRegistrations :
          /\ guardPc[g] = "none"
          /\ \A f \in 1..(g - 1) : guardPc[f] # "none"
          /\ LET r == add(registry, g)
             IN /\ registry' = r.self
                /\ addResult' = r.res
                /\ IF r.res = OverflowError
                   THEN /\ added' = added
                        /\ guardPc' = [guardPc EXCEPT ![g] = "dropped"]
                   ELSE /\ added' = Append(added, [handle |-> r.res[2],
                                                   value |-> g])
                        /\ guardPc' = [guardPc EXCEPT ![g] = "registered"]
    /\ UNCHANGED <<gone, strong, installed, installs, uninstalls,
                   streamVars, onceVars, pureVars, guardVars>>

\* register_hook that never looks at the weak reference.
RegisterHookAlwaysInstall(g) ==
    /\ guardPc[g] = "registered"
    /\ guardPc' = [guardPc EXCEPT ![g] = "held"]
    /\ strong' = strong + 1
    /\ installed' = installed + 1
    /\ installs' = installs + 1
    /\ UNCHANGED <<uninstalls, regVars, streamVars, onceVars, pureVars,
                   guardVars>>

\* register_hook whose failure returns the error with the CallbackGuard of
\* the first half leaked instead of dropped.
RegisterHookLeakCallback(g) ==
    /\ guardPc[g] = "registered"
    /\ IF strong > 0
       THEN /\ strong' = strong + 1
            /\ guardPc' = [guardPc EXCEPT ![g] = "held"]
            /\ UNCHANGED <<installed, installs>>
       ELSE \E ok \in BOOLEAN :
               IF ok
               THEN /\ strong' = 1
                    /\ installed' = installed + 1
                    /\ installs' = installs + 1
                    /\ guardPc' = [guardPc EXCEPT ![g] = "held"]
               ELSE /\ guardPc' = [guardPc EXCEPT ![g] = "dropped"]
                    /\ UNCHANGED <<strong, installed, installs>>
    /\ UNCHANGED <<uninstalls, regVars, streamVars, onceVars, pureVars,
                   guardVars>>

\* register_windows_hook, second half: register_hook under the write lock
\* of WEAK.  A live Arc is cloned; otherwise SetWindowsHookExW is called,
\* and when it fails the error is returned and the CallbackGuard of the
\* first half is dropped.
RegisterHook(g) ==
    /\ guardPc[g] = "registered"
    /\ IF strong > 0
       THEN /\ strong' = strong + 1
            /\ guardPc' = [guardPc EXCEPT ![g] = "held"]
            /\ UNCHANGED <<installed, installs>>
       ELSE \E ok \in BOOLEAN :
               IF ok
               THEN /\ strong' = 1
                    /\ installed' = installed + 1
                    /\ installs' = installs + 1
                    /\ guardPc' = [guardPc EXCEPT ![g] = "held"]
               ELSE /\ guardPc' = [guardPc EXCEPT ![g] = "callback"]
                    /\ UNCHANGED <<strong, installed, installs>>
    /\ UNCHANGED <<uninstalls, regVars, streamVars, onceVars, pureVars,
                   guardVars>>

RegisterHookStep == \E g \in 1..MaxRegistrations : RegisterHook(g)

\* Drop of a WindowsHookGuard, first field: the Arc's strong count is
\* decremented, and the thread that took it to zero goes on to free the
\* HookHandle.
DropArc ==
    /\ \E g \in Held :
          guardPc' = [guardPc EXCEPT
                         ![g] = IF strong = 1 THEN "unhook" ELSE "callback"]
    /\ strong' = strong - 1
    /\ UNCHANGED <<installed, installs, uninstalls, regVars, streamVars,
                   onceVars, pureVars, guardVars>>

\* Drop of the HookHandle: Owned<HHOOK> unhooks the native hook.
Unhook ==
    /\ \E g \in 1..MaxRegistrations :
          /\ guardPc[g] = "unhook"
          /\ guardPc' = [guardPc EXCEPT ![g] = "callback"]
    /\ installed' = installed - 1
    /\ uninstalls' = uninstalls + 1
    /\ UNCHANGED <<strong, installs, regVars, streamVars, onceVars,
                   pureVars, guardVars>>

\* Drop of the CallbackGuard, the guard's second field: the closure is
\* removed from CALLBACKS under its write lock.
DropCallback ==
    /\ CanWrite
    /\ \E g \in 1..MaxRegistrations :
          /\ guardPc[g] = "callback"
          /\ guardPc' = [guardPc EXCEPT ![g] = "dropped"]
          /\ registry' = remove(registry, added[g].handle)
          /\ gone' = gone \cup {g}
    /\ UNCHANGED <<added, addResult, strong, installed, installs,
                   uninstalls, streamVars, onceVars, pureVars, guardVars>>

\* --------------------------------------------------- Interest operations
\* self.is(other) is called on the operands.
ApplyIs ==
    /\ interestOp.is = << >>
    /\ interestOp' = [interestOp EXCEPT
                         !.is = <<is(interestOp.self, interestOp.other)>>]
    /\ UNCHANGED <<streamVars, onceVars, regVars, hookVars, guardVars,
                   scan>>

\* self.is_empty() is called.
ApplyIsEmpty ==
    /\ interestOp.is_empty = << >>
    /\ interestOp' = [interestOp EXCEPT
                         !.is_empty = <<is_empty(interestOp.self)>>]
    /\ UNCHANGED <<streamVars, onceVars, regVars, hookVars, guardVars,
                   scan>>

\* self | other is computed.
ApplyBitOr ==
    /\ interestOp.bitor = << >>
    /\ interestOp' = [interestOp EXCEPT
                         !.bitor = <<bitor(interestOp.self,
                                           interestOp.other)>>]
    /\ UNCHANGED <<streamVars, onceVars, regVars, hookVars, guardVars,
                   scan>>

\* ---------------------------------------------- registration and teardown
\* What the backend may have registered when stream(i) returns.  macOS
\* needs the main thread; on the web nothing is registered without a window
\* and a flag's listeners may fail; on Windows COM and the hook may fail.
Registrations(i) ==
    CASE platform = "macos" ->
           IF onMain THEN {ObserverRegister(i)} ELSE {}
      [] platform = "web" ->
           {<< >>} \cup {WebGuards(i, queried) : queried \in SUBSET i}
      [] platform = "windows" ->
           {ComThreadLocals(com, hook) : com \in BOOLEAN, hook \in BOOLEAN}
      [] OTHER -> {}

\* The application creates a stream; DropOnMainThread::new initialises the
\* drop zone before it wraps its first value.
RegisterHandles ==
    /\ teardown.pc = "none"
    /\ \E i \in SUBSET HandleKinds : \E owned \in Registrations(i) :
          teardown' = [teardown EXCEPT
                          !.pc = "held", !.interest = i, !.owned = owned,
                          !.zone = (platform = "web" /\ owned # << >>)]
    /\ UNCHANGED <<streamVars, onceVars, regVars, hookVars, pureVars,
                   android, fanout>>

\* The drop of the stream starts on some thread (on Windows the stream's
\* drop makes com_thread return, which drops the locals on its thread).
DropBegin ==
    /\ teardown.pc = "held"
    /\ \E thread \in (IF platform = "windows" THEN {"com"}
                      ELSE {"main", "other"}) :
          teardown' =
              [teardown EXCEPT
                  !.pc = "dropping", !.thread = thread,
                  !.plan =
                      CASE platform = "macos" ->
                             ObserverRegistrationDrop(teardown.interest)
                        [] platform = "web" ->
                             PreferencesStreamDrop(teardown.owned)
                        [] platform = "windows" ->
                             ComThreadReturn(teardown.owned)]
    /\ UNCHANGED <<streamVars, onceVars, regVars, hookVars, pureVars,
                   android, fanout>>

\* The drop handles its next handle.
DropHandle ==
    /\ teardown.pc = "dropping"
    /\ teardown.plan # << >>
    /\ LET h == Head(teardown.plan)
           t == [teardown EXCEPT !.plan = Tail(@)]
       IN teardown' = CASE platform = "macos" -> ObserverRemove(t, h)
                        [] platform = "web" -> DropOnMainThreadDrop(t, h)
                        [] platform = "windows" -> DropLocal(t, h)
    /\ UNCHANGED <<streamVars, onceVars, regVars, hookVars, pureVars,
                   android, fanout>>

\* The drop returns.
DropReturn ==
    /\ teardown.pc = "dropping"
    /\ teardown.plan = << >>
    /\ teardown' = [teardown EXCEPT !.pc = "dropped"]
    /\ UNCHANGED <<streamVars, onceVars, regVars, hookVars, pureVars,
                   android, fanout>>

\* The main thread, when it is not inside the drop, runs what was queued
\* for it: the closure of run_on_main_async, or the task of the drop zone
\* receiving a DropBox and dropping it.
MainThreadRun ==
    /\ teardown.queue # << >>
    /\ ~(teardown.pc = "dropping" /\ teardown.thread = "main")
    /\ teardown' = [teardown EXCEPT
                       !.queue = Tail(@),
                       !.released = Append(@, [handle |-> Head(teardown.queue),
                                               thread |-> "main"])]
    /\ UNCHANGED <<streamVars, onceVars, regVars, hookVars, pureVars,
                   android, fanout>>

\* --------------------------------------------------- Android subscription
\* A call of subscribe_java or unsubscribe_java and its outcome.
JavaCall(a, op, ok) ==
    [a EXCEPT !.calls = Append(@, [op |-> op, ok |-> ok]),
              !.java = IF ok THEN op = "subscribe" ELSE @]

\* subscribe: CALLBACKS.write() returns the guard to thread t.
SubscribeLock(t) ==
    /\ android.pc[t] = "idle"
    /\ CanWrite
    /\ android.subscribes < MaxAdds
    /\ android' = [android EXCEPT !.lock = t, !.pc[t] = "subscribe",
                                  !.subscribes = @ + 1]
    /\ UNCHANGED registry

\* subscribe: subscribe_java is called if the registry is empty; its error
\* is returned (the guard is dropped).
SubscribeJava(t) ==
    /\ android.pc[t] = "subscribe"
    /\ IF CallbacksIsEmpty(registry)
       THEN \E ok \in BOOLEAN :
               android' =
                   IF ok
                   THEN [JavaCall(android, "subscribe", TRUE)
                            EXCEPT !.pc[t] = "add"]
                   ELSE [JavaCall(android, "subscribe", FALSE)
                            EXCEPT !.pc[t] = "idle", !.lock = 0]
       ELSE android' = [android EXCEPT !.pc[t] = "add"]
    /\ UNCHANGED registry

\* subscribe: the callback is added and the Subscription returned, or the
\* OverflowError is; the guard is dropped.
SubscribeAdd(t) ==
    /\ android.pc[t] = "add"
    /\ LET r == add(registry, "foo")
       IN /\ registry' = r.self
          /\ android' =
                IF r.res = OverflowError
                THEN [android EXCEPT !.pc[t] = "idle", !.lock = 0]
                ELSE [android EXCEPT !.pc[t] = "held", !.lock = 0,
                                     !.handle[t] = r.res[2]]

\* Subscription::drop: unsubscribe takes the handle and the write lock.
UnsubscribeLock(t) ==
    /\ android.pc[t] = "held"
    /\ CanWrite
    /\ android' = [android EXCEPT !.lock = t, !.pc[t] = "unsubscribe"]
    /\ UNCHANGED registry

\* unsubscribe: the callback is removed and, if that empties the
\* registry, unsubscribe_java is called; the guard is dropped.
Unsubscribe(t) ==
    /\ android.pc[t] = "unsubscribe"
    /\ registry' = remove(registry, android.handle[t])
    /\ LET a == [android EXCEPT !.pc[t] = "idle", !.lock = 0,
                                !.handle[t] = DefaultHandle]
       IN IF CallbacksIsEmpty(registry')
          THEN \E ok \in BOOLEAN : android' = JavaCall(a, "unsubscribe", ok)
          ELSE android' = a

\* What the steps of subscribe and unsubscribe leave alone.
AndroidFrame ==
    UNCHANGED <<added, addResult, gone, streamVars, onceVars, hookVars,
                pureVars, teardown, fanout>>

\* ---------------------------------------------------- the entry points
\* The operating system calls the entry point e (hook_proc only while the
\* native hook is installed), which takes the read lock of CALLBACKS.
EntryCall(e) ==
    /\ e \in EntryPointsOf(platform)
    /\ e = "hook_proc" => installed > 0
    /\ fanout.pos[e] = 0
    /\ fanout.events < MaxNotifications
    /\ CanRead
    /\ fanout' = [fanout EXCEPT !.pos[e] = 1,
                                !.called[e] = << >>,
                                !.events = @ + 1,
                                !.event[e] = fanout.events + 1]

\* An invocation whose closure sends into the channel of every stream.
EntryInvokeShared(e) ==
    /\ fanout.pos[e] \in 1..Len(registry.callbacks)
    /\ LET handle == registry.callbacks[fanout.pos[e]].handle
       IN fanout' = [fanout EXCEPT
                        !.pos[e] = @ + 1,
                        !.called[e] = Append(@, handle),
                        !.delivered =
                            [h \in 1..UsizeMax |->
                                IF h \in Handles(registry)
                                THEN Append(@[h], fanout.event[e])
                                ELSE @[h]]]

\* for callback in callbacks.iter() { callback() }: the next callback is
\* invoked; its closure sends into the channel of its own stream.
EntryInvoke(e) ==
    /\ fanout.pos[e] \in 1..Len(registry.callbacks)
    /\ LET handle == registry.callbacks[fanout.pos[e]].handle
       IN fanout' = [fanout EXCEPT
                        !.pos[e] = @ + 1,
                        !.called[e] = Append(@, handle),
                        !.delivered[handle] = Append(@, fanout.event[e])]

\* The iteration is over: the read guard is dropped and the call returns.
EntryReturn(e) ==
    /\ fanout.pos[e] > Len(registry.callbacks)
    /\ fanout' = [fanout EXCEPT !.pos[e] = 0, !.called[e] = << >>]

\* What the entry points leave alone.
EntryFrame ==
    UNCHANGED <<regVars, streamVars, onceVars, hookVars, pureVars,
                teardown, android>>

\* ----------------------------------------------------------- Scan::poll_next
\* Poll::Pending as a value returned by poll_next.
PollPending == <<"Pending">>

\* The fold function of the runs of Scan on its own: it counts the deltas
\* and answers None for the item "stop".
ScanFold(state, item) ==
    IF item = "stop" THEN None ELSE Some(<<state + 1, state + 1>>)

\* UnfoldState::take_value: the value of a Value, which leaves Empty.
TakeValue(state) ==
    IF state.tag = "Value" THEN Some(state.value) ELSE None

\* poll_next returns res.
ScanReturn(self, res) == [self EXCEPT !.out = Append(@, res)]

\* The loop of Scan::poll_next.  now: a fold future created in this call
\* is ready at its first poll.
RECURSIVE ScanLoop(_, _)
ScanLoop(self, now) ==
    IF self.state.tag = "Future"
    THEN IF ~self.state.ready
         THEN ScanReturn(self, PollPending)
         ELSE LET r == ScanFold(self.state.value, self.state.item)
              IN IF r = None
                 THEN ScanReturn([self EXCEPT !.state = UnfoldEmpty], None)
                 ELSE ScanReturn([self EXCEPT
                                     !.state = UnfoldValue(r[2][1])],
                                 Some(r[2][2]))
    ELSE LET polled == [self EXCEPT
                           !.innerPolls = @ + 1,
                           !.polledIn = @ \cup {self.state.tag}]
         IN IF polled.stream = << >>
            THEN ScanReturn(polled,
                            IF polled.closed THEN None ELSE PollPending)
            ELSE LET item == Head(polled.stream)
                     taken == TakeValue(polled.state)
                     pulled == [polled EXCEPT !.stream = Tail(@),
                                              !.pulled = @ + 1]
                 IN IF taken = None
                    THEN [pulled EXCEPT !.panicked = TRUE]
                    ELSE ScanLoop(
                             [pulled EXCEPT
                                 !.folds = @ + 1,
                                 !.state = UnfoldFuture(taken[2], item, now)],
                             now)

\* poll_next without the check of is_done_taking.
ScanPollNextNoDoneCheck(self, now) == ScanLoop(self, now)

\* Scan::poll_next.
ScanPollNext(self, now) ==
    IF self.state.tag = "Empty"
    THEN ScanReturn(self, None)
    ELSE ScanLoop(self, now)

\* What the steps of Scan on its own leave alone.
ScanFrame ==
    UNCHANGED <<streamVars, onceVars, regVars, hookVars, interestOp,
                guardVars>>

\* Scan::new(stream, initial_state, f) with the initial state 0.
ScanNew ==
    /\ scan.pc = "none"
    /\ scan' = [scan EXCEPT !.pc = "live", !.state = UnfoldValue(0)]
    /\ ScanFrame

\* The inner stream gets an item ready.
ScanInnerSend ==
    /\ scan.pc = "live"
    /\ ~scan.closed
    /\ scan.sends < MaxScanItems
    /\ \E item \in {"delta", "stop"} :
          scan' = [scan EXCEPT !.stream = Append(@, item), !.sends = @ + 1]
    /\ ScanFrame

\* The inner stream will end after the items it holds.
ScanInnerClose ==
    /\ scan.pc = "live"
    /\ ~scan.closed
    /\ scan' = [scan EXCEPT !.closed = TRUE]
    /\ ScanFrame

\* The pending fold future becomes ready.
ScanFutureReady ==
    /\ scan.pc = "live"
    /\ scan.state.tag = "Future"
    /\ ~scan.state.ready
    /\ scan' = [scan EXCEPT !.state.ready = TRUE]
    /\ ScanFrame

\* One call of poll_next, at any time.
ScanPollNextCall ==
    /\ scan.pc = "live"
    /\ ~scan.panicked
    /\ Len(scan.out) < MaxScanPolls
    /\ \E now \in BOOLEAN : scan' = ScanPollNext(scan, now)
    /\ ScanFrame

\* ------------------------------------------------------------------- spec
Next ==
    \/ NativeChange
    \/ NativeNotify
    \/ CallStream
    \/ StreamPoll
    \/ StreamDrop
    \/ Subscribe
    \/ DropSubscription
    \/ TaskPoll
    \/ CallbackReturn
    \/ LinuxSubscribed
    \/ ComStart
    \/ ComHook
    \/ ComRecv

Spec == Init /\ [][Next]_vars

\* Preferences::once_blocking called instead of stream or subscribe.
OnceNext ==
    \/ CallOnceBlocking
    \/ OncePoll
    \/ TimerFires
    \/ NativeChange
    \/ LinuxSubscribed
    \/ ComStart
    \/ ComHook
    \/ ComRecv

OnceSpec == Init /\ [][OnceNext]_vars

\* The macOS backend under each of the three calls of the public API.
MacosInit == Init /\ platform = "macos"

MacosNext ==
    \/ NativeChange
    \/ NativeNotify
    \/ CallStream
    \/ StreamPoll
    \/ StreamDrop
    \/ Subscribe
    \/ DropSubscription
    \/ TaskPoll
    \/ CallbackReturn
    \/ CallOnceBlocking

MacosSpec == MacosInit /\ [][MacosNext]_vars

\* The freedesktop backend under each of the calls of the public API, with
\* the signals of the portal that are not setting changes of the model.
LinuxInit == Init /\ platform = "linux"

LinuxNext ==
    \/ NativeChange
    \/ NativeNotify
    \/ ForeignSignal
    \/ CallStream
    \/ StreamPoll
    \/ StreamDrop
    \/ Subscribe
    \/ DropSubscription
    \/ TaskPoll
    \/ CallbackReturn
    \/ LinuxSubscribed

LinuxSpec == LinuxInit /\ [][LinuxNext]_vars

\* Notifications that arrive while a stream is being torn down, on the
\* backends whose native callbacks can outlive the receiver.
LateInit ==
    /\ InitWith(MaxFairNotifications)
    /\ interestOp = NoInterestOp
    /\ platform \in {"macos", "android", "windows"}

LateNext ==
    \/ NativeChange
    \/ NativeNotify
    \/ CallStream
    \/ StreamPoll
    \/ StreamDrop
    \/ StreamDropDeferred
    \/ RemoveObserverOnMain
    \/ Subscribe
    \/ DropSubscription
    \/ TaskPoll
    \/ CallbackReturn
    \/ ComStart
    \/ ComHook
    \/ ComRecv

LateSpec == LateInit /\ [][LateNext]_vars

\* A Scan on its own, over a stream and a fold function of the runs.
ScanInit ==
    /\ InitWith(0)
    /\ platform = "linux"
    /\ native = DefaultPreferences
    /\ interestOp = NoInterestOp

ScanNext ==
    \/ ScanNew
    \/ ScanInnerSend
    \/ ScanInnerClose
    \/ ScanFutureReady
    \/ ScanPollNextCall

ScanSpec == ScanInit /\ [][ScanNext]_vars

\* The operations of Interest applied to every pair of interests.
InterestInit ==
    /\ InitWith(0)
    /\ platform = "linux"
    /\ native = DefaultPreferences
    /\ interestOp \in {[NoInterestOp EXCEPT !.self = a, !.other = b] :
                           a \in Interests, b \in Interests}

InterestNext ==
    \/ ApplyIs
    \/ ApplyIsEmpty
    \/ ApplyBitOr

InterestSpec == InterestInit /\ [][InterestNext]_vars

\* A Callbacks registry on its own, as its unit tests use it.
RegistryInit ==
    /\ InitWith(0)
    /\ platform = "android"
    /\ native = DefaultPreferences
    /\ interestOp = NoInterestOp

RegistryNext ==
    \/ Add
    \/ RemoveIssued
    \/ RemoveUnissued

RegistrySpec == RegistryInit /\ [][RegistryNext]_vars

\* A stream's native registrations from their creation to their release.
TeardownInit == Init /\ platform \in {"macos", "web", "windows"}

TeardownNext ==
    \/ RegisterHandles
    \/ DropBegin
    \/ DropHandle
    \/ DropReturn
    \/ MainThreadRun

TeardownSpec == TeardownInit /\ [][TeardownNext]_vars

\* Threads subscribing and dropping Subscriptions on Android.
AndroidInit ==
    /\ Init
    /\ platform = "android"
    /\ native = DefaultPreferences

AndroidNext ==
    \/ \E t \in Threads : SubscribeLock(t) /\ AndroidFrame
    \/ \E t \in Threads : SubscribeJava(t) /\ AndroidFrame
    \/ \E t \in Threads : SubscribeAdd(t) /\ AndroidFrame
    \/ \E t \in Threads : UnsubscribeLock(t) /\ AndroidFrame
    \/ \E t \in Threads : Unsubscribe(t) /\ AndroidFrame

AndroidSpec == AndroidInit /\ [][AndroidNext]_vars

\* Threads registering and dropping Windows hook guards.
HookInit ==
    /\ InitWith(0)
    /\ platform = "windows"
    /\ native = DefaultPreferences
    /\ interestOp = NoInterestOp

HookNext ==
    \/ RegisterCallback
    \/ RegisterHookStep
    \/ DropArc
    \/ Unhook
    \/ DropCallback

HookSpec == HookInit /\ [][HookNext]_vars

\* The same, also with CALLBACKS two registrations away from the end of
\* its handle counter, as earlier registrations that were dropped leave it.
NearOverflow == [callbacks |-> << >>, next_handle |-> UsizeMax - 2]

HookRollbackInit ==
    /\ \E self \in {new, NearOverflow} : InitFrom(0, self)
    /\ platform = "windows"
    /\ native = DefaultPreferences
    /\ interestOp = NoInterestOp

HookRollbackSpec == HookRollbackInit /\ [][HookNext]_vars

\* Subscriptions being added and dropped while the operating system calls
\* the entry points, on Android and on Windows; on Android subscribe is
\* called as many times as there are threads.
FanoutInit ==
    /\ Init
    /\ platform \in {"android", "windows"}
    /\ native = DefaultPreferences

FanoutNext ==
    \/ \E e \in EntryPoints : EntryCall(e) /\ EntryFrame
    \/ \E e \in EntryPoints : EntryInvoke(e) /\ EntryFrame
    \/ \E e \in EntryPoints : EntryReturn(e) /\ EntryFrame
    \/ /\ platform = "android"
       /\ android.subscribes < MaxThreads
       /\ \E t \in Threads : SubscribeLock(t) /\ AndroidFrame
    \/ /\ platform = "android"
       /\ \/ \E t \in Threads : SubscribeJava(t) /\ AndroidFrame
          \/ \E t \in Threads : SubscribeAdd(t) /\ AndroidFrame
          \/ \E t \in Threads : UnsubscribeLock(t) /\ AndroidFrame
          \/ \E t \in Threads : Unsubscribe(t) /\ AndroidFrame
    \/ platform = "windows" /\ HookNext

FanoutSpec == FanoutInit /\ [][FanoutNext]_vars

TypeOK ==
    /\ platform \in Platforms
    /\ native \in Snapshots
    /\ fired \in 0..budget
    /\ interest \subseteq Kinds
    /\ phase \in {"none", "lazy", "connecting", "once", "changes", "ended"}
    /\ Len(current) <= 1
    /\ taskPc \in {"none", "await", "callback", "done"}

\* The steps of the consumer of the stream: the application's own task, or
\* the task spawn_future runs.
Consumer == StreamPoll \/ TaskPoll \/ CallbackReturn

\* The steps the backend takes on its own: the session bus answering, and
\* the COM thread.
Backend == LinuxSubscribed \/ ComStart \/ ComHook \/ ComRecv

FairInit == InitWith(MaxFairNotifications) /\ interestOp = NoInterestOp

\* The scheduling the code relies on: a consumer that was woken is polled
\* again and a callback returns; the session bus answers and the COM thread
\* runs.  Nothing is assumed about the OS firing notifications or about the
\* application dropping its handles.
\* The macOS backend with a consumer that is polled again whenever it was
\* woken; nothing is assumed about the OS or about the application's
\* other calls.
MacosFairSpec ==
    /\ MacosInit
    /\ [][MacosNext]_vars
    /\ WF_vars(Consumer)

FairSpec ==
    /\ FairInit
    /\ [][Next]_vars
    /\ WF_vars(Consumer)
    /\ WF_vars(Backend)

\* The Windows backend with a COM thread that keeps running: the thread is
\* an operating system thread of its own, std::thread::spawn in stream().
\* Nothing is assumed about the consumer, the OS or the application.
WindowsInit == FairInit /\ platform = "windows"

ComThread == ComStart \/ ComHook \/ ComRecv

WindowsNext ==
    \/ NativeChange
    \/ NativeNotify
    \/ CallStream
    \/ StreamPoll
    \/ StreamDrop
    \/ Subscribe
    \/ DropSubscription
    \/ TaskPoll
    \/ CallbackReturn
    \/ ComStart
    \/ ComHook
    \/ ComRecv

WindowsFairSpec ==
    /\ WindowsInit
    /\ [][WindowsNext]_vars
    /\ WF_vars(ComThread)

\* ============================================================ properties
IsPrefix(a, b) ==
    /\ Len(a) <= Len(b)
    /\ \A k \in 1..Len(a) : a[k] = b[k]

\* seq without the items that equal their immediate predecessor.
RECURSIVE Collapse(_)
Collapse(seq) ==
    IF Len(seq) <= 1 THEN seq
    ELSE LET n == Len(seq)
             front == Collapse(SubSeq(seq, 1, n - 1))
         IN IF seq[n] = seq[n - 1] THEN front ELSE Append(front, seq[n])

Converted(seq) == [k \in 1..Len(seq) |-> ToPreferences(seq[k])]

\* The backend finished establishing the stream: the initial snapshot is
\* known (freedesktop's subscribe completed, the COM thread sent it).
Established ==
    \/ phase = "once"
    \/ platform = "windows" /\ phase = "changes" /\ comPc \notin {"none", "start"}

\* C1: whatever the interest and the outcome of the native setup, the first
\* item of the stream is the initial snapshot and no change-derived snapshot
\* precedes it; as soon as the backend is established the item is ready for
\* the next poll and the consumer is scheduled, with or without a native
\* notification; and a stream that is polled and not dropped eventually
\* yields it.
C1_FirstIsInitial ==
    /\ (emitted # << >> => emitted[1] = ToPreferences(initial))
    /\ (innerSeq # << >> => innerSeq[1] = initial)
    /\ (alive /\ emitted = << >> /\ Established
            => /\ woken
               /\ DedupPoll.res = "item"
               /\ DedupPoll.item = ToPreferences(initial))

\* C1: the first item is always the initial snapshot, and a live stream
\* eventually yields it.
C1_InitialValue ==
    /\ []C1_FirstIsInitial
    /\ (alive ~> (emitted # << >> \/ ~alive))

\* C1 witness: a snapshot read from the OS was yielded first although a
\* change was already queued behind it, and the connection did not fail.
C1_Witness ==
    /\ Len(emitted) = 1
    /\ emitted[1] = ToPreferences(initial)
    /\ initial # DefaultPreferences
    /\ chan # << >>
    /\ setup = "ok"

\* C2: the public stream yields the backend's items with every item equal
\* to its immediate predecessor removed, in order; so no two consecutive
\* emitted snapshots are equal.
C2_Deduplicated ==
    /\ emitted = Converted(Collapse(innerSeq))
    /\ \A k \in 1..(Len(emitted) - 1) : emitted[k] # emitted[k + 1]

\* C2 witness: the same delta was folded twice in a row and produced one
\* emission only.
C2_Witness ==
    /\ Len(folded) = 2
    /\ folded[1] = folded[2]
    /\ Len(innerSeq) = 3
    /\ Len(emitted) = 2
    /\ emitted[2] # emitted[1]

\* subscribe returned (it did not panic) for a non-empty interest.
Subscribed == api = "subscribe" /\ interest # {} /\ setup # "panicked"

C3_FirstCall ==
    /\ (calls # << >> => calls[1] = ToPreferences(initial))
    /\ (taskPc = "done" /\ calls = << >> => subscription = "dropped")

RECURSIVE FoldAll(_, _)
FoldAll(deltas, seed) ==
    IF deltas = << >> THEN seed
    ELSE LET n == Len(deltas)
         IN Fold(deltas[n], FoldAll(SubSeq(deltas, 1, n - 1), seed))

DarkDelta == Delta("ColorScheme", Set(DefaultPreferences, "ColorScheme", "Dark"))
MoreDelta == Delta("Contrast", Set(DefaultPreferences, "Contrast", "More"))

\* C4: Scan is a strict left fold: n deltas taken give n snapshots, the
\* k-th being the first k deltas applied in order to the initial snapshot,
\* and the accumulator is the last of them.  With interest {ColorScheme,
\* Contrast}, ColorScheme -> Dark followed by Contrast -> More gives a
\* snapshot with Dark and then one with Dark and More.
C4_StrictLeftFold ==
    /\ Len(scanOut) = Len(folded)
    /\ \A k \in 1..Len(folded) :
          scanOut[k] = FoldAll(SubSeq(folded, 1, k), initial)
    /\ (source = "scan" => acc = FoldAll(folded, initial))
    /\ (interest = {"ColorScheme", "Contrast"}
            /\ folded = <<DarkDelta, MoreDelta>>
          => scanOut = <<Set(initial, "ColorScheme", "Dark"),
                         Set(Set(initial, "ColorScheme", "Dark"),
                             "Contrast", "More")>>)

\* C4 witness: the scenario on the web backend, polled to the end.
C4_Witness ==
    /\ platform = "web"
    /\ interest = {"ColorScheme", "Contrast"}
    /\ initial = DefaultPreferences
    /\ folded = <<DarkDelta, MoreDelta>>
    /\ emitted = <<DefaultPreferences,
                   Set(DefaultPreferences, "ColorScheme", "Dark"),
                   Set(Set(DefaultPreferences, "ColorScheme", "Dark"),
                       "Contrast", "More")>>

\* C5: the native sources of one stream feed one channel: the deltas are
\* folded in the order they were sent (per source and across sources),
\* while the stream lives every delta sent is either folded or still
\* queued, and a queued delta leaves the consumer scheduled to take it.
C5_MergedInOrder ==
    /\ IsPrefix(folded, sent)
    /\ (alive /\ source = "scan" => sent = folded \o chan)
    /\ (alive /\ source = "scan" /\ chan # << >> => woken)

\* C5 witness: two different sources of a web or macOS stream fired and
\* both deltas were folded in the order of firing.
C5_Witness ==
    /\ platform \in {"web", "macos"}
    /\ Len(folded) = 2
    /\ folded = sent
    /\ folded[1].tag # folded[2].tag
    /\ Len(emitted) = 3

\* C6: when the native setup fails as a whole (no session bus, the JNI
\* subscription fails, no window, COM cannot be initialised) the stream
\* holds no registration, yields exactly one item, the default snapshot,
\* and ends after it; the failure is not an item of the stream.
C6_DegradedStream ==
    setup = "failed" =>
        /\ initial = DefaultPreferences
        /\ registered = {}
        /\ ~hooked
        /\ IsPrefix(innerSeq, <<DefaultPreferences>>)
        /\ IsPrefix(emitted, <<DefaultPreferences>>)
        /\ (alive /\ innerSeq = << >>
                => /\ DedupPoll.res = "item"
                   /\ DedupPoll.item = DefaultPreferences)
        /\ (alive /\ innerSeq # << >> => DedupPoll.res = "end")

\* C6 witness: COM could not be initialised although the OS has every
\* preference set; the stream yielded the default snapshot and then ended.
C6_Witness ==
    /\ platform = "windows"
    /\ setup = "failed"
    /\ native # DefaultPreferences
    /\ emitted = <<DefaultPreferences>>
    /\ endSeen

\* C7: the callback's invocations do not overlap: one begins only after
\* the one before it returned, and they carry the stream's snapshots in
\* the order the stream yielded them.
C7_Sequential ==
    /\ returns <= Len(calls)
    /\ Len(calls) <= returns + 1
    /\ (taskPc = "callback" <=> Len(calls) = returns + 1)
    /\ (api = "subscribe" => calls = emitted)

\* C7 witness: the second invocation runs after the first returned while a
\* further change is already queued.
C7_Witness ==
    /\ taskPc = "callback"
    /\ Len(calls) = 2
    /\ returns = 1
    /\ chan # << >>

\* C8 as stated: once the Subscription is dropped no invocation of the
\* callback begins.
C8_Original == [][subscription = "dropped" => calls' = calls]_vars

\* C9: once the Subscription of a non-empty interest is dropped, the task
\* eventually takes Message::Shutdown, leaves the loop and drops the stream
\* with its registrations; the message is taken at most once, and a task
\* that already ended stays ended when the drop comes later.
C9_Stable ==
    /\ (rx = "yielded" => subscription = "dropped" /\ taskPc = "done")
    /\ (taskPc = "done" => ~alive /\ registered = {} /\ chan = << >>)

C10_Original ==
    (Subscribed /\ endSeen /\ subscription = "held")
        => (taskPc = "done" \/ taskPc = "callback" \/ CanPoll)

\* C11: Preferences::stream with an empty interest never calls the
\* backend's stream function: nothing is registered, no thread is started,
\* nothing is ever sent, and the stream yields exactly the default snapshot
\* and then ends.
C11_EmptyInterestStream ==
    (api = "stream" /\ interest = {}) =>
        /\ setup = "none"
        /\ registered = {}
        /\ comPc = "none"
        /\ ~hooked
        /\ ~senders
        /\ sent = << >>
        /\ taskPc = "none"
        /\ IsPrefix(emitted, <<DefaultPreferences>>)
        /\ (alive /\ emitted = << >>
                => /\ DedupPoll.res = "item"
                   /\ DedupPoll.item = DefaultPreferences)
        /\ (alive /\ emitted # << >> => DedupPoll.res = "end")

\* C11 witness: the OS has every preference set and notified a change, and
\* the stream of the empty interest yielded the default snapshot and ended.
C11_Witness ==
    /\ api = "stream"
    /\ interest = {}
    /\ native # DefaultPreferences
    /\ fired > 0
    /\ emitted = <<DefaultPreferences>>
    /\ endSeen

C13_OnceBlocking ==
    (api = "once" /\ interest # {}) =>
        /\ (result = None
                => timer = "fired" /\ innerSeq = << >>
                   /\ platform \in {"linux", "windows"})
        /\ (result \notin {<< >>, None}
                => /\ result = Some(ToPreferences(initial))
                   /\ (platform \in {"linux", "windows"}
                          => innerSeq = <<initial>>))
        /\ (result = << >> /\ alive
                => /\ (BackendPoll.res = "item"
                          => OnceOutcome = Some(ToPreferences(initial)))
                   /\ (BackendPoll.res = "pending" /\ timer = "fired"
                          => OnceOutcome = None)
                   /\ (BackendPoll.res = "pending" /\ timer # "fired"
                          => OnceOutcome = << >>))

\* C13 witness: on Linux the snapshot read from the bus was returned
\* although the timer had fired before the poll that found it.
C13_Witness ==
    /\ api = "once"
    /\ platform = "linux"
    /\ timer = "fired"
    /\ setup = "ok"
    /\ initial # DefaultPreferences
    /\ result = Some(ToPreferences(initial))

\* C14: once_blocking with an empty interest returns Some(default snapshot)
\* whatever the timeout, zero included, and the backend is never called.
C14_OnceBlockingEmpty ==
    (api = "once" /\ interest = {}) =>
        /\ result = Some(ToPreferences(DefaultPreferences))
        /\ phase = "none"
        /\ setup = "none"
        /\ initial = DefaultPreferences
        /\ ~alive
        /\ registered = {}
        /\ comPc = "none"
        /\ sent = << >>

\* C14 witness: the call with an empty interest and a zero timeout returned
\* the default snapshot while the OS has every preference set.
C14_Witness ==
    /\ api = "once"
    /\ interest = {}
    /\ timer = "fired"
    /\ native # DefaultPreferences
    /\ result = Some(ToPreferences(DefaultPreferences))

\* C15 as stated: every preference kind of the interest is monitored.  A
\* change produces a snapshot only through a notification that reaches the
\* channel, so on the backends whose registration cannot fail in part
\* (macOS, and Linux once the signal is subscribed) a live stream must have,
\* for every kind of its interest, a notification that sends something.
C15_Original ==
    (alive /\ setup = "ok" /\ platform \in {"macos", "linux"}) =>
        \A k \in interest : Notification(k, native, interest) # << >>

\* Every field of snapshot s whose kind is outside the interest is default.
OnlyInterest(s) ==
    \A k \in Kinds \ interest : Get(s, k) = "NoPreference"

\* C16: in every snapshot of a stream, initial or change-derived, from the
\* backend, from the public stream or handed to the callback, the fields
\* whose kind is not in the interest hold their default value, whatever
\* notifications were received.
C16_OnlyInterestFilled ==
    /\ \A n \in 1..Len(innerSeq) : OnlyInterest(innerSeq[n])
    /\ \A n \in 1..Len(emitted) : OnlyInterest(emitted[n])
    /\ \A n \in 1..Len(calls) : OnlyInterest(calls[n])
    /\ (alive => OnlyInterest(acc) /\ OnlyInterest(initial))

\* C16 witness: a Linux stream interested in the color scheme only took the
\* signal of a contrast change, which the OS now reports as More, and the
\* snapshot it produced was yielded by the backend.
C16_Witness ==
    /\ platform = "linux"
    /\ interest = {"ColorScheme"}
    /\ native.contrast = "More"
    /\ folded # << >>
    /\ folded[1].tag = "Contrast"
    /\ Len(innerSeq) = 2
    /\ emitted # << >>

\* C18: the handles returned by add are strictly increasing in the order
\* of the calls, so none is issued twice; the stored entries have distinct
\* handles, each at least FIRST_HANDLE and below next_handle; and no issued
\* handle is the default handle.
C18_HandlesUnique ==
    /\ \A m, n \in 1..Len(added) :
          m < n => added[m].handle < added[n].handle
    /\ \A n \in 1..Len(registry.callbacks) :
          /\ registry.callbacks[n].handle >= FIRST_HANDLE
          /\ registry.callbacks[n].handle < registry.next_handle
    /\ \A m, n \in 1..Len(registry.callbacks) :
          m # n => registry.callbacks[m].handle # registry.callbacks[n].handle
    /\ \A n \in 1..Len(added) : added[n].handle # DefaultHandle

\* An add made after an earlier entry was removed, with its entry stored.
C18_Witness ==
    /\ Len(added) >= 3
    /\ \E n \in gone : n < Len(added)
    /\ Len(added) \notin gone
    /\ Len(registry.callbacks) >= 2

\* What one remove(handle) must do to the registry.
RemoveEffect(handle) ==
    LET cb == registry.callbacks
    IN /\ registry'.next_handle = registry.next_handle
       /\ IF handle \in Handles(registry)
          THEN \E n \in 1..Len(cb) :
                  /\ cb[n].handle = handle
                  /\ registry'.callbacks =
                         SubSeq(cb, 1, n - 1) \o SubSeq(cb, n + 1, Len(cb))
          ELSE registry' = registry

\* C19: remove(h) takes out exactly the entry whose handle is h; with the
\* default handle, a handle never issued or one already removed it changes
\* nothing; and it never changes next_handle.
C19_RemoveExact ==
    [][\A handle \in 0..UsizeMax :
          RemoveCall(handle) => RemoveEffect(handle)]_vars

\* An entry other than the first was removed: the first entry added and at
\* least one more are still stored, and next_handle is where the adds left
\* it.
C19_Witness ==
    /\ gone # {}
    /\ 1 \notin gone
    /\ Len(registry.callbacks) >= 2
    /\ registry.callbacks[1].handle = FIRST_HANDLE
    /\ Len(registry.callbacks) = Len(added) - Cardinality(gone)
    /\ registry.next_handle = FIRST_HANDLE + Len(added)

\* The values of the first n adds whose entry was not removed, in order.
RECURSIVE Surviving(_)
Surviving(n) ==
    IF n = 0 THEN << >>
    ELSE Surviving(n - 1) \o
         (IF n \in gone THEN << >> ELSE <<added[n].value>>)

\* C20: iter yields exactly the values added and not yet removed, each
\* once, in the order they were added; when every entry was removed the
\* registry is empty.
C20_IterInsertionOrder ==
    /\ iter(registry) = Surviving(Len(added))
    /\ (gone = 1..Len(added)) => registry.callbacks = << >>

\* Four entries were added and every other one removed: the first and the
\* third are left, in that order.
C20_Witness ==
    /\ Len(added) = 4
    /\ gone = {2, 4}
    /\ iter(registry) = <<added[1].value, added[3].value>>
    /\ added[1].value # added[3].value

\* The guards whose thread is about to unhook the hook they held last.
Unhooking == {g \in 1..MaxRegistrations : guardPc[g] = "unhook"}

\* C17: the Windows hook is shared by reference counting.  The strong
\* count is the number of guards held; while guards are held exactly one
\* native hook serves them all, and every other installed hook is one whose
\* last guard is being dropped; a hook is installed only by a registration
\* made while no guard is held, and every such registration installs one;
\* a hook is uninstalled only by the drop of the last guard that held it.
C17_HookShared ==
    /\ [](/\ strong = Cardinality(Held)
          /\ installed = (IF Held # {} THEN 1 ELSE 0)
                             + Cardinality(Unhooking)
          /\ installs = uninstalls + installed)
    /\ [][/\ installs' # installs <=> (Held = {} /\ Held' # {})
          /\ installs' \in {installs, installs + 1}
          /\ uninstalls' \in {uninstalls, uninstalls + 1}
          /\ uninstalls' # uninstalls <=>
                 \E g \in Unhooking : guardPc'[g] # "unhook"
          /\ \A g \in Unhooking' \ Unhooking : Held = {g}
          /\ (Held # {} /\ Held' = {}) => Unhooking' # Unhooking]_vars

\* Three overlapping guards shared one hook and all were dropped: the hook
\* was installed once and uninstalled once.
C17_Witness ==
    /\ \A g \in 1..3 : guardPc[g] = "dropped"
    /\ installs = 1
    /\ uninstalls = 1
    /\ installed = 0

\* What one add(value) must do to the registry and return.
AddEffect(value) ==
    IF registry.next_handle + 1 > UsizeMax
    THEN /\ registry' = registry
         /\ addResult' = OverflowError
    ELSE /\ registry'.callbacks =
               Append(registry.callbacks,
                      [handle |-> registry.next_handle, value |-> value])
         /\ registry'.next_handle = registry.next_handle + 1
         /\ addResult' = Ok(registry.next_handle)

\* C21: add returns OverflowError exactly when incrementing next_handle
\* would overflow the counter, and then leaves the registry as it was; in
\* every other case it succeeds, appends one entry and increments
\* next_handle by one.  The counter never leaves its width.
C21_AddOverflow ==
    /\ [](/\ registry.next_handle \in FIRST_HANDLE..UsizeMax
          /\ (addResult = OverflowError => registry.next_handle = UsizeMax)
          /\ Len(registry.callbacks) <= Len(added))
    /\ [][\A value \in Values : AddCall(value) => AddEffect(value)]_vars

\* An add has failed with OverflowError and the entries of the adds that
\* succeeded before it are all stored.
C21_Witness ==
    /\ addResult = OverflowError
    /\ registry.next_handle = UsizeMax
    /\ Len(registry.callbacks) = UsizeMax - FIRST_HANDLE
    /\ gone = {}

\* C22: on macOS a call of stream, subscribe or once_blocking with a
\* non-empty interest made off the main thread panics at once: no observer
\* is registered, no preference is read, no stream, task or result exists
\* then or later; and nothing else panics.
C22_OffMainThreadPanics ==
    /\ (platform = "macos" /\ ~onMain /\ api # "none" /\ interest # {}) =>
          /\ setup = "panicked"
          /\ ~alive
          /\ phase = "none"
          /\ registered = {}
          /\ ~senders
          /\ initial = DefaultPreferences
          /\ innerSeq = << >>
          /\ emitted = << >>
          /\ calls = << >>
          /\ result = << >>
          /\ subscription = "none"
          /\ taskPc = "none"
    /\ setup = "panicked" =>
          (platform = "macos" /\ ~onMain /\ api # "none" /\ interest # {})

\* subscribe panicked off the main thread, and the OS has since notified a
\* change of a preference.
C22_Witness ==
    /\ setup = "panicked"
    /\ api = "subscribe"
    /\ fired > 0
    /\ native # DefaultPreferences

\* Flag number n (the bit 1 << n) is set in x.
FlagSet(x, n) == (x \div (2 ^ n)) % 2 = 1

\* C23: a.is(b) is true iff every flag set in b is set in a; (a | b).is(a)
\* and (a | b).is(b) hold; a.is(empty) holds; All.is(x) holds for every
\* flag x; and a | b is empty iff both a and b are.
C23_IsSuperset ==
    LET a == interestOp.self
        b == interestOp.other
    IN /\ interestOp.is # << >> =>
             interestOp.is[1] = (\A n \in 0..7 : FlagSet(b, n) => FlagSet(a, n))
       /\ interestOp.is_empty # << >> =>
             interestOp.is_empty[1] = (\A n \in 0..7 : ~FlagSet(a, n))
       /\ interestOp.bitor # << >> =>
             LET u == interestOp.bitor[1]
             IN /\ is(u, a)
                /\ is(u, b)
                /\ is_empty(u) <=> (is_empty(a) /\ is_empty(b))
                /\ \A n \in 0..7 :
                      FlagSet(u, n) <=> (FlagSet(a, n) \/ FlagSet(b, n))
       /\ is(a, 0)
       /\ \A x \in InterestFlags : is(All, x)

\* The operands share a flag but self lacks one of other's: is answered
\* false, and the union was computed.
C23_Witness ==
    /\ interestOp.is = <<FALSE>>
    /\ BitAnd(interestOp.self, interestOp.other) # 0
    /\ interestOp.is_empty = <<FALSE>>
    /\ interestOp.bitor # << >>
    /\ interestOp.bitor[1] \notin {interestOp.self, interestOp.other}

\* This step is a poll in which Dedup took from the inner stream an item
\* equal to `current`.
DuplicateTaken ==
    /\ Len(innerSeq') = Len(innerSeq) + 1
    /\ current = <<innerSeq'[Len(innerSeq')]>>

\* C25 as stated: the poll that takes a duplicate goes on to request the
\* next item in the same call, so it never returns without an emission
\* while the inner source has an item ready.
C25_Original ==
    [][DuplicateTaken => ~(emitted' = emitted /\ chan' # << >>)]_vars

\* C25: the poll that takes a duplicate takes nothing more from the inner
\* stream: it yields nothing, keeps `current`, and leaves the consumer
\* woken (unless the poll ended the consumer), so that the next item is
\* requested by the next poll_next call.
C25_DuplicateWakes ==
    [][DuplicateTaken =>
          /\ emitted' = emitted
          /\ current' = current
          /\ alive' => woken']_vars

\* A duplicate was suppressed while a further delta waits in the channel,
\* and the consumer is woken to poll again.
C25_Witness ==
    /\ alive
    /\ woken
    /\ Len(innerSeq) >= 2
    /\ innerSeq[Len(innerSeq)] = innerSeq[Len(innerSeq) - 1]
    /\ current = <<innerSeq[Len(innerSeq)]>>
    /\ Len(emitted) < Len(innerSeq)
    /\ chan # << >>

\* Every item the inner stream has yielded or is bound to yield from what
\* is queued: the initial snapshot if it is still to come, then one fold
\* per queued delta.
InnerItems ==
    innerSeq
    \o (IF phase = "once" THEN <<initial>> ELSE << >>)
    \o [n \in 1..Len(chan) |-> FoldAll(SubSeq(chan, 1, n), acc)]

\* The last item Dedup took from the inner stream was a duplicate that it
\* suppressed.
DuplicateSuppressed ==
    /\ Len(innerSeq) >= 2
    /\ innerSeq[Len(innerSeq)] = innerSeq[Len(innerSeq) - 1]
    /\ current = <<innerSeq[Len(innerSeq)]>>

\* C24: once a duplicate was suppressed, a later item of the inner stream
\* that differs from it is eventually emitted (unless the stream is dropped
\* first), also when that item was queued before the duplicate was taken
\* and the inner stream wakes nobody afterwards.
C24_NoStall ==
    \A n \in 1..(MaxNotifications + 1) :
        (/\ alive
         /\ DuplicateSuppressed
         /\ Len(emitted) < n
         /\ Len(Collapse(Converted(InnerItems))) >= n)
            ~> (Len(emitted) >= n \/ ~alive)

\* The stream emitted the initial snapshot, suppressed a duplicate of it and
\* then emitted a snapshot that differs, with nothing left in the channel.
C24_Witness ==
    /\ alive
    /\ api = "stream"
    /\ Len(innerSeq) = 3
    /\ innerSeq[2] = innerSeq[1]
    /\ innerSeq[3] # innerSeq[2]
    /\ emitted = <<ToPreferences(innerSeq[1]), ToPreferences(innerSeq[3])>>
    /\ chan = << >>

\* C26 as stated: when the initial snapshot was obtained but the change
\* subscription could not be established (freedesktop: the SettingChanged
\* subscription failed; Windows: the hook registration failed), the stream
\* yields exactly one item, the initial snapshot, and ends after it.
C26_Original ==
    setup = "partial" =>
        /\ registered = {}
        /\ ~hooked
        /\ IsPrefix(innerSeq, <<initial>>)
        /\ IsPrefix(emitted, <<ToPreferences(initial)>>)
        /\ (alive /\ innerSeq = << >>
                => /\ DedupPoll.res = "item"
                   /\ DedupPoll.item = ToPreferences(initial))
        /\ (alive /\ innerSeq # << >> => DedupPoll.res = "end")

\* The handles released so far, in the order of their release.
ReleasedHandles ==
    [n \in 1..Len(teardown.released) |-> teardown.released[n].handle]

\* The drop returned and nothing it queued is left to run.
TornDown == teardown.pc = "dropped" /\ teardown.queue = << >>

\* C27 as stated: once a dropped stream's handles are all released, they
\* were released in the reverse of the order of their registration.
C27_Original == TornDown => ReleasedHandles = Reverse(teardown.owned)

\* C27: no handle is released before the drop of the stream and none
\* twice; once the drop returned and the main thread ran what was queued,
\* every handle the stream owned is released exactly once.  The order is
\* the reverse of the registrations on Windows and the order of the
\* registrations on the web.
C27_ReleasedOnce ==
    /\ teardown.pc \in {"none", "held"} => teardown.released = << >>
    /\ \A m, n \in 1..Len(teardown.released) :
          ReleasedHandles[m] = ReleasedHandles[n] => m = n
    /\ \A n \in 1..Len(teardown.released) :
          \E m \in 1..Len(teardown.owned) :
              teardown.owned[m] = ReleasedHandles[n]
    /\ TornDown => Len(teardown.released) = Len(teardown.owned)
    /\ TornDown /\ platform = "windows"
          => ReleasedHandles = Reverse(teardown.owned)
    /\ TornDown /\ platform = "web" => ReleasedHandles = teardown.owned

\* C27 witness: a Windows stream that owned COM and the hook was dropped and
\* both are released.
C27_Witness ==
    /\ TornDown
    /\ Len(teardown.owned) >= 2
    /\ Len(ReleasedHandles) = Len(teardown.owned)
    /\ platform = "windows"

\* The removals the drop issued so far: those executed and those queued
\* for the main thread.
Issued == ReleasedHandles \o teardown.queue

\* C28: on macOS the drop of an ObserverRegistration issues removals only
\* for observer kinds that Observer::register registered, none twice, and
\* when it returns it has issued exactly one for every registered kind.
C28_RemovalsMatchRegistrations ==
    platform = "macos" =>
        /\ \A m, n \in 1..Len(Issued) : Issued[m] = Issued[n] => m = n
        /\ {Issued[n] : n \in 1..Len(Issued)}
              \subseteq {teardown.owned[n] : n \in 1..Len(teardown.owned)}
        /\ teardown.pc = "dropped" =>
              {Issued[n] : n \in 1..Len(Issued)}
                  = {teardown.owned[n] : n \in 1..Len(teardown.owned)}

\* C28 witness: a registration for every flag was dropped: the three kinds
\* were registered and the removal of each was issued.
C28_Witness ==
    /\ platform = "macos"
    /\ teardown.pc = "dropped"
    /\ teardown.interest = HandleKinds
    /\ Len(teardown.owned) = 3
    /\ Len(Issued) = 3

\* The handles whose unregistration is bound to the main thread: every
\* value wrapped in a DropOnMainThread, and the KVO observer of macOS.
ThreadAffine(h) ==
    \/ platform = "web"
    \/ platform = "macos" /\ h = "effectiveAppearance"

\* C29: a thread-affine unregistration is executed on the main thread only
\* and at most once, whichever thread drops the stream; the drop zone is
\* initialised whenever a DropOnMainThread exists, so handing a value to
\* it never panics; a drop running off the main thread leaves every
\* thread-affine handle it handled to the main thread's queue.
C29_MainThreadTeardown ==
    /\ [](/\ \A n \in 1..Len(teardown.released) :
               ThreadAffine(teardown.released[n].handle)
                   => /\ teardown.released[n].thread = "main"
                      /\ \A m \in 1..Len(teardown.released) :
                            teardown.released[m].handle
                                = teardown.released[n].handle => m = n
          /\ \A n \in 1..Len(teardown.queue) :
               \A m \in 1..Len(teardown.released) :
                   teardown.released[m].handle # teardown.queue[n]
          /\ platform = "web" /\ teardown.owned # << >> => teardown.zone
          /\ teardown.pc # "panicked")
    /\ [][\A h \in {teardown.owned[n] : n \in 1..Len(teardown.owned)} :
            (/\ DropHandle
             /\ teardown.thread # "main"
             /\ ThreadAffine(h)
             /\ Head(teardown.plan) = h)
                => /\ teardown'.released = teardown.released
                   /\ teardown'.queue = Append(teardown.queue, h)]_vars

\* C29 witness: a web stream with several listeners was dropped off the
\* main thread and the main thread has since executed every unregistration
\* handed to the drop zone.
C29_Witness ==
    /\ platform = "web"
    /\ TornDown
    /\ teardown.thread = "other"
    /\ Len(teardown.owned) >= 3
    /\ Len(teardown.released) = Len(teardown.owned)

\* No call of subscribe_java or unsubscribe_java has failed.
NoJavaFailure == \A n \in 1..Len(android.calls) : android.calls[n].ok

\* The Java calls alternate, starting with subscribe.
Alternating ==
    \A n \in 1..Len(android.calls) :
        android.calls[n].op = (IF n % 2 = 1 THEN "subscribe"
                               ELSE "unsubscribe")

\* Between the calls of subscribe and unsubscribe, the Java side is
\* subscribed iff the registry holds a callback.
JavaInStep ==
    android.lock = 0 => (android.java <=> ~CallbacksIsEmpty(registry))

\* Every Java call is made by a thread holding the write lock: subscribe
\* exactly when the thread found the registry empty, unsubscribe exactly
\* when its removal left the registry empty; a failed subscribe adds no
\* callback.
JavaCallsUnderLock ==
    \A t \in Threads :
        /\ android'.calls # android.calls /\ android'.pc[t] # android.pc[t]
              => android.lock = t
        /\ android.pc[t] = "subscribe" /\ android'.pc[t] # "subscribe"
              => /\ android'.calls # android.calls
                        <=> CallbacksIsEmpty(registry)
                 /\ android'.pc[t] = "idle" => registry' = registry
        /\ android.pc[t] = "unsubscribe" /\ android'.pc[t] = "idle"
              => (android'.calls # android.calls
                     <=> CallbacksIsEmpty(registry'))

\* C30 as stated: the Java calls are made under the write lock exactly on
\* the transitions of the registry from and to empty, and while no Java
\* call has failed they alternate, starting with subscribe, and the Java
\* side is subscribed iff the registry is not empty.
C30_Original ==
    /\ [](NoJavaFailure => Alternating /\ JavaInStep)
    /\ [][JavaCallsUnderLock]_vars

\* The same while no add has met the end of the handle counter.
C30_BeforeOverflow ==
    /\ [](NoJavaFailure /\ registry.next_handle < UsizeMax
             => Alternating /\ JavaInStep)
    /\ [][JavaCallsUnderLock]_vars

\* The handles of the registered callbacks, in the order of the registry.
HandleSeq(self) ==
    [n \in 1..Len(self.callbacks) |-> self.callbacks[n].handle]

\* C31: an entry point holds the read lock only while no writer holds the
\* write lock, and has invoked the callbacks before its position, each
\* once, in the order of their insertion; the registry is not modified
\* while an entry point is running; when the entry point returns it has
\* invoked exactly the callbacks of the registry; and a callback is only
\* ever invoked while it is registered, never after its removal.
C31_FanOut ==
    /\ [](\A e \in EntryPoints :
             fanout.pos[e] # 0
                 => /\ android.lock = 0
                    /\ fanout.pos[e] <= Len(registry.callbacks) + 1
                    /\ fanout.called[e]
                          = SubSeq(HandleSeq(registry), 1, fanout.pos[e] - 1))
    /\ [][/\ registry' # registry => ~ReadLocked /\ ~ReadLocked'
          /\ \A e \in EntryPoints :
                fanout.pos[e] # 0 /\ fanout'.pos[e] = 0
                    => fanout.called[e] = HandleSeq(registry)
          /\ \A h \in 1..UsizeMax :
                fanout'.delivered[h] # fanout.delivered[h]
                    => /\ h \in Handles(registry)
                       /\ Len(fanout'.delivered[h])
                             = Len(fanout.delivered[h]) + 1]_vars

\* C31 witness: an entry point has invoked two callbacks and is about to
\* return, after another callback that had been invoked for an earlier
\* event was removed.
C31_Witness ==
    \E e \in EntryPoints :
        /\ fanout.pos[e] = 3
        /\ Len(fanout.called[e]) = 2
        /\ \E h \in 1..UsizeMax :
              /\ h \notin Handles(registry)
              /\ fanout.delivered[h] # << >>

\* The step is the removal of its own callback h by its owner: the end of
\* unsubscribe on Android, the drop of the CallbackGuard on Windows.
OwnRemoval(h) ==
    \/ \E t \in Threads :
          /\ android.pc[t] = "unsubscribe"
          /\ android'.pc[t] = "idle"
          /\ android.handle[t] = h
    \/ \E g \in 1..Len(added) :
          /\ guardPc[g] = "callback"
          /\ guardPc'[g] = "dropped"
          /\ added[g].handle = h

\* C32: a callback leaves the registry only by the drop of its own
\* stream, one callback per drop; an entry point that returns has sent
\* exactly one item for its event to every stream registered; and a step
\* that sends to one stream sends it one item and leaves what every other
\* stream was sent, and the registry, as they were.
C32_Isolation ==
    [][/\ \A h \in Handles(registry) \ Handles(registry') : OwnRemoval(h)
       /\ Cardinality(Handles(registry) \ Handles(registry')) <= 1
       /\ \A e \in EntryPoints :
             fanout.pos[e] # 0 /\ fanout'.pos[e] = 0
                 => \A h \in Handles(registry) :
                       Cardinality({n \in 1..Len(fanout.delivered[h]) :
                                       fanout.delivered[h][n]
                                           = fanout.event[e]}) = 1
       /\ \A h \in 1..UsizeMax :
             fanout'.delivered[h] # fanout.delivered[h]
                 => /\ \A o \in 1..UsizeMax \ {h} :
                          fanout'.delivered[o] = fanout.delivered[o]
                    /\ registry' = registry
                    /\ \E e \in EntryPoints :
                          /\ fanout.pos[e] # 0
                          /\ fanout'.delivered[h]
                                = Append(fanout.delivered[h],
                                         fanout.event[e])]_vars

\* C32 witness: of two streams that were both sent the first event, one
\* was dropped; the other was sent the second event too, while the
\* dropped one was sent nothing more.
C32_Witness ==
    \E h \in 1..UsizeMax : \E o \in 1..UsizeMax :
        /\ h \notin Handles(registry)
        /\ fanout.delivered[h] = <<1>>
        /\ o \in Handles(registry)
        /\ fanout.delivered[o] = <<1, 2>>
        /\ \A e \in EntryPoints : fanout.pos[e] = 0

\* C33: on Windows, dropping the stream sends exactly one Shutdown message
\* to the COM thread; the thread takes its messages in the order they were
\* queued, sends one re-read snapshot per WM_SETTINGCHANGE, and on Shutdown
\* leaves its loop and releases the hook guard; once the stream is dropped
\* the thread terminates eventually, although the hook callback still holds
\* a sender of the message channel.
ShutdownCount(q) == Cardinality({n \in 1..Len(q) : q[n] = "Shutdown"})

ComThreadRunning == comPc \in {"start", "hook", "loop"}

C33_ShutdownStep ==
    /\ (alive /\ ~alive' /\ ComThreadRunning) =>
            /\ ShutdownCount(msgq') = ShutdownCount(msgq) + 1
            /\ msgq' = Append(msgq, "Shutdown")
    /\ ~(alive /\ ~alive') => ShutdownCount(msgq') <= ShutdownCount(msgq)
    /\ Len(msgq') < Len(msgq) =>
            /\ msgq' = Tail(msgq)
            /\ Head(msgq) = "WM_SETTINGCHANGE" =>
                   /\ comPc' = "loop"
                   /\ hooked' = hooked
                   /\ alive =>
                        sent' = Append(sent,
                            Delta("Snapshot",
                                  ReadPreferences("windows", native, interest,
                                                  settings)))
            /\ Head(msgq) = "Shutdown" =>
                   /\ comPc' = "done"
                   /\ ~hooked'
                   /\ sent' = sent
    /\ (comPc = "loop" /\ comPc' # "loop") =>
            /\ msgq # << >>
            /\ Head(msgq) = "Shutdown"

C33_Shutdown ==
    /\ [](ShutdownCount(msgq) <= 1)
    /\ [](ShutdownCount(msgq) = 1 => ~alive)
    /\ [][C33_ShutdownStep]_vars
    /\ ((platform = "windows" /\ ~alive /\ ComThreadRunning)
            ~> (comPc = "done" /\ ~hooked))

C33_Witness ==
    /\ platform = "windows"
    /\ comPc = "loop"
    /\ hooked
    /\ ~alive
    /\ msgq = <<"WM_SETTINGCHANGE", "Shutdown">>

\* C34 as stated: under every interleaving of registrations and guard
\* drops at most one native hook is installed at any moment, and while a
\* guard is held the hook it refers to is installed.
C34_Original ==
    /\ installed <= 1
    /\ Held # {} => installed >= 1

\* What the code keeps: the guards that are held share one installed hook,
\* and every further installed hook is one whose last guard has taken the
\* strong count to zero and has not unhooked it yet.
C34_OnePerLiveArc ==
    /\ Held # {} => installed >= 1
    /\ installed <= 1 + Cardinality(Unhooking)
    /\ Unhooking = {} => installed <= 1

\* The Windows stream is at rest with its hook installed: the COM thread
\* waits in recv and no WM_SETTINGCHANGE is queued.
WindowsAtRest ==
    /\ platform = "windows"
    /\ alive
    /\ comPc = "loop"
    /\ hooked
    /\ msgq = << >>

\* What a read of the OS would give now.
ReadNow == ReadPreferences("windows", native, interest, settings)

\* C35 as stated, on Windows: the subscription is in place before the
\* initial read, so no change is lost; once the stream is at rest the last
\* snapshot the backend sent carries the values the OS holds.
C35_Original ==
    WindowsAtRest =>
        /\ sent # << >>
        /\ sent[Len(sent)] = Delta("Snapshot", ReadNow)

\* What the code keeps on Windows: a change that is notified after the
\* hook was registered is read again, and that read carries every earlier
\* change as well.
C35_AfterFirstNotification ==
    (WindowsAtRest /\ Len(sent) >= 2) =>
        sent[Len(sent)] = Delta("Snapshot", ReadNow)

\* The registrations whose call has returned without a guard being held:
\* the call failed, or its guard was dropped.
Returned == {g \in 1..MaxRegistrations : guardPc[g] = "dropped"}

\* The closures that are in CALLBACKS.
InRegistry == {registry.callbacks[n].value : n \in 1..Len(registry.callbacks)}

\* C36: register_windows_hook is all-or-nothing.  A failing installation
\* of the native hook retains no hook reference and installs nothing, and
\* the call returns only after its callback was removed again, which takes
\* exactly that callback out of the registry; a failing add leaves the
\* registry as it was and the call returns at once, without installing a
\* hook then or later; the closure of a call that has returned is not in
\* the registry.
C36_Step ==
    \A g \in 1..MaxRegistrations :
        /\ (guardPc[g] = "registered" /\ guardPc'[g] = "callback") =>
               /\ strong = 0
               /\ UNCHANGED <<strong, installed, installs, registry>>
               /\ g \in InRegistry
        /\ (guardPc[g] = "callback" /\ guardPc'[g] # "callback") =>
               /\ guardPc'[g] = "dropped"
               /\ registry'.callbacks =
                      SelectSeq(registry.callbacks,
                                LAMBDA entry : entry.value # g)
               /\ UNCHANGED <<strong, installed, installs>>
        /\ (guardPc[g] = "none" /\ guardPc'[g] = "dropped") =>
               /\ addResult' = OverflowError
               /\ UNCHANGED <<registry, strong, installed, installs>>
        /\ (guardPc[g] = "none" /\ guardPc'[g] # "none"
                /\ addResult' # OverflowError) =>
               /\ guardPc'[g] = "registered"
               /\ InRegistry' = InRegistry \cup {g}
        /\ guardPc[g] = "registered" => guardPc'[g] # "dropped"
        /\ guardPc[g] = "dropped" => guardPc'[g] = "dropped"

C36_AllOrNothing ==
    /\ [](Returned \cap InRegistry = {})
    /\ [][C36_Step]_vars

\* The first call added its callback, failed to install the hook and has
\* returned with the callback removed; the last call failed in add.
C36_Witness ==
    /\ guardPc[1] = "dropped"
    /\ Len(added) >= 1
    /\ installs = 0
    /\ strong = 0
    /\ registry.callbacks = << >>
    /\ guardPc[MaxRegistrations] = "dropped"
    /\ Len(added) < MaxRegistrations

\* A message that apply_message does not apply: its body does not
\* deserialise, its key is unknown, or its preference is not in the
\* interest.
Ignored(d) == d.tag \notin Kinds \/ d.tag \notin interest

\* The message the fold has just taken, if it took one.
Taken == IF Len(folded') = Len(folded) + 1
         THEN <<folded'[Len(folded')]>> ELSE << >>

\* C37: on Linux a SettingChanged message that is ignored leaves the
\* accumulated snapshot unchanged, is yielded by the fold as the unchanged
\* snapshot, does not end the stream, and gives no emission on the public
\* stream and no callback invocation; a message for a key of the interest
\* changes the field of that key and nothing else.
C37_Step ==
    /\ Len(folded') \in {Len(folded), Len(folded) + 1}
    /\ Taken # << >> =>
          LET d == Taken[1]
          IN /\ folded' = Append(folded, d)
             /\ scanOut' = Append(scanOut, acc')
             /\ Ignored(d) =>
                    /\ acc' = acc
                    /\ emitted' = emitted
                    /\ calls' = calls
                    /\ endSeen' = endSeen
             /\ ~Ignored(d) =>
                    acc' = Set(acc, d.tag, Get(d.val, d.tag))
    /\ Taken = << >> => acc' = acc \/ phase \in {"none", "lazy", "connecting"}

C37_IgnoredMessages == [][platform = "linux" => C37_Step]_vars

\* A message that does not deserialise was folded without an emission, and
\* the change of an interested key that followed it was emitted.
C37_Witness ==
    /\ platform = "linux"
    /\ Len(folded) = 2
    /\ folded[1].tag = "Malformed"
    /\ folded[2].tag \in interest
    /\ Len(emitted) = 2
    /\ ~endSeen

\* The stream was created and has been dropped.
StreamDropped == api # "none" /\ ~alive /\ phase # "none"

\* C38: a native notification that arrives after its stream was dropped
\* is ignored: nothing enters the channel of the dropped stream, nothing is
\* recorded as sent, the consumer gets no item and no callback invocation
\* from it, and nothing panics.
C38_Step ==
    StreamDropped =>
        /\ chan' = << >>
        /\ sent' = sent
        /\ innerSeq' = innerSeq
        /\ emitted' = emitted
        /\ calls' = calls
        /\ setup # "panicked" => setup' # "panicked"
        /\ ~alive'

C38_LateNotificationIgnored ==
    /\ [](StreamDropped => chan = << >>)
    /\ [][C38_Step]_vars

\* macOS: the color scheme changed while the observer of a dropped stream
\* was still registered, and nothing was sent for it.
C38_Witness ==
    /\ platform = "macos"
    /\ StreamDropped
    /\ interest = {"ColorScheme"}
    /\ registered = {"ColorScheme"}
    /\ native.color_scheme # initial.color_scheme
    /\ sent = << >>
    /\ fired = 1

\* C39: one call of Dedup::poll_next polls the inner stream at most once:
\* a step takes at most one item from the inner stream and at most one
\* delta from the channel, also when more duplicates are ready; the call
\* that takes a duplicate leaves the rest of the run queued, returns
\* Pending without an emission or a callback invocation, and has scheduled
\* its own wake-up.
C39_Step ==
    /\ Len(innerSeq') <= Len(innerSeq) + 1
    /\ Len(folded') <= Len(folded) + 1
    /\ alive' => Len(chan') >= Len(chan) - 1
    /\ DuplicateTaken =>
          /\ emitted' = emitted
          /\ calls' = calls
          /\ alive' => /\ woken'
                       /\ chan' = Tail(chan)

C39_BoundedPoll == [][C39_Step]_vars

\* A run of two duplicates was consumed by two calls: the inner stream has
\* yielded three equal items, one was emitted, and the consumer is woken.
C39_Witness ==
    /\ alive
    /\ woken
    /\ Len(innerSeq) = 3
    /\ innerSeq[1] = innerSeq[2]
    /\ innerSeq[2] = innerSeq[3]
    /\ Len(emitted) = 1
    /\ chan = << >>

\* C40: the fold of Scan is strictly sequential.  The state is one of
\* Value, Future and Empty; the inner stream is polled only while the
\* state is Value, so take_value().unwrap() never panics; while a fold
\* future is pending or completing nothing is pulled from the inner stream
\* and the fold function is not called; a call pulls at most one item and
\* calls the fold function at most once; the state becomes Empty only when
\* the fold function returned None; and in Empty every poll_next returns
\* the end of the stream without polling the inner stream or calling the
\* fold function, and the state stays Empty.
C40_Step ==
    /\ scan'.pulled \in {scan.pulled, scan.pulled + 1}
    /\ scan'.folds \in {scan.folds, scan.folds + 1}
    /\ scan'.folds - scan.folds = scan'.pulled - scan.pulled
    /\ scan.state.tag = "Future" =>
          /\ scan'.pulled = scan.pulled
          /\ scan'.innerPolls = scan.innerPolls
          /\ scan'.folds = scan.folds
          /\ ~scan.state.ready => scan'.state.tag = "Future"
    /\ (scan.pc = "live" /\ scan.state.tag = "Empty") =>
          /\ scan'.state = scan.state
          /\ scan'.innerPolls = scan.innerPolls
          /\ scan'.folds = scan.folds
          /\ scan'.pulled = scan.pulled
          /\ scan'.out # scan.out => scan'.out = Append(scan.out, None)
    /\ (scan.pc = "live" /\ scan.state.tag # "Empty"
            /\ scan'.state.tag = "Empty") =>
          /\ scan'.out = Append(scan.out, None)
          /\ \/ scan.state.tag = "Future" /\ scan.state.item = "stop"
             \/ scan.state.tag = "Value" /\ scan.stream # << >>
                    /\ Head(scan.stream) = "stop"

C40_Sequential ==
    /\ [](scan.pc = "live" =>
             /\ scan.state.tag \in {"Value", "Future", "Empty"}
             /\ ~scan.panicked
             /\ scan.polledIn \subseteq {"Value"}
             /\ scan.folds = scan.pulled)
    /\ [][C40_Step]_vars

\* The fold function has answered None after a fold that was pending, a
\* later poll returned the end again, and the item that was ready after
\* the stop is still in the inner stream.
C40_Witness ==
    /\ scan.state.tag = "Empty"
    /\ scan.out = <<PollPending, Some(1), None, None>>
    /\ scan.folds = 2
    /\ scan.stream # << >>

====
